---- MODULE Spec2Model ----
(***************************************************************************)
(* Banana Coin trading game back-end: the market engine (market.py), the   *)
(* trading bots (bot.py, bot_operations.py), the transaction history       *)
(* (transaction_history.py) and the API server's tick loop and trade       *)
(* endpoints (api_server.py), over the Redis store they share.             *)
(*                                                                         *)
(* Amounts are integers: coins in whole coins, money and prices in cents   *)
(* (MIN_PRICE = 10 is the code's $0.10, the reserve floor of 10000.0       *)
(* dollars is 10000 * Dollar cents).  Python's float products and          *)
(* quotients become integer ones, rounded down.                            *)
(***************************************************************************)
EXTENDS Integers, Sequences, FiniteSets, TLC

VARIABLES
    market,        \* the Market object a session updates
    redis_market,  \* the hashes market:{id} and market:{id}:data
    shocks,        \* history: number of _trigger_event calls so far
    fired_at,      \* history: the tick of the last _trigger_event call, 0 for none
    updates,       \* history: number of updateMarket calls so far
    redis_game,    \* the hash game:{id}: players, totalUsd, totalBc
    redis_tx,      \* the list transactions:{id}, most recent first
    bot,           \* the Bot object of the bot's run thread
    redis_bot,     \* the hash bot:{id}:{bot_id}
    ops,           \* history: number of trade requests and bot trades so far
    run_pc,        \* Bot.run: where the run thread is in its loop
    run_iter,      \* Bot.run: iteration_count, modulo SAVE_EVERY
    run_decision,  \* Bot.run: the decision of this iteration
    run_game,      \* Bot.run: the game_data dict of this iteration
    tog_pc,        \* toggleBot: where the call is
    tog_bot,       \* toggleBot: the Bot it loaded
    tog_players,   \* toggleBot: the players list it loaded
    toggles,       \* history: number of toggleBot calls so far
    toggled_off,   \* history: the last toggleBot stored is_toggled = False
    store_up,      \* whether the Redis store answers
    now,           \* time.time(), in half seconds since the session started
    loop_pc,       \* run_market_updates: where the task is
    loop_cfg,      \* run_market_updates: its end_time and update_interval
    update_count,  \* run_market_updates: update_count
    cancel,        \* stop_market_updates: "none", "requested", "delivered", "returned"
    orphan,        \* a to_thread(updateMarket) whose awaiting task was cancelled
    task_active,   \* game_id in active_game_tasks
    is_ended,      \* the field isEnded of game:{id}
    req_pc,        \* a buy-coins or sell-coins request: "idle" or "loaded"
    req,           \* the request and the market and players it loaded
    market_stored, \* whether the hash market:{id} exists
    tasks,         \* the run_market_updates tasks created so far, in order
    active_task,   \* active_game_tasks[game_id]: an index of tasks, 0 for none
    stop_wait,     \* stop_market_updates: the task it awaits, 0 for none
    pre_buy,       \* history: the bot's wallet and the pool before its last buy
    gen_input,     \* generate_custom_bot_strategy: the environment and the reply
    gen_result,    \* generate_custom_bot_strategy: what the call produced
    custom_strategy_code, \* the custom bot's custom_strategy_code
    analyzed,      \* history: the coins and the strategy's behaviour in the last analyze
    custom_decision, \* what the last Bot.analyze call of the custom bot produced
    game_has_id,   \* whether the hash game:{id} has the field gameId
    recording,     \* history: how the last trade's recording went
    market_hashes, \* the hashes market:{id} and market:{id}:data, field by field
    saved_market,  \* the Market object, with all its fields, as it was last saved
    reference,     \* history: the last tick applied to the saved object itself
    str_hash,      \* hash(text) of this interpreter process, for the texts a bot hashes
    bot_obj,       \* the Bot object in memory, constructed or loaded, if there is one
    bot_hashes,    \* the hashes bot:{id}:{bot_id}, field by field, per bot id
    game_players,  \* the players of game:{id} with their id fields and bots lists
    bought,        \* history: the last buyBot call and its result
    saved_bot,     \* history: per bot id, the Bot object as it was last saved
    first_coefficient, \* history: per bot id, the first generated behavior_coefficient
    analysis,      \* history: the last Bot.analyze call of the bot and its decision
    interactions,  \* the field interactions of game:{id}: the legacy list
    run_interactions, \* Bot.run: game_data['interactions'] of this iteration
    buy_pc,        \* POST /api/bot/buy: where the request is
    buy_req,       \* the request, what it loaded, and how it ended
    save_pc,       \* Market.save_to_redis of the tick: which hash it writes next
    load_pc,       \* a Market.load_from_redis beside it: which hash it reads next
    load_req,      \* that load: the hash market:{id} it read, and its result
    rm_pc,         \* Bot.remove_from_redis: "none", "deleted" or "removed"
    bots_set,      \* whether the bot's id is a member of the set bots:{id}
    active_entries, \* active_game_tasks: the dict's entries in insertion order
    game_task,     \* per game id, the state of its run_market_updates task
    shut,          \* shutdown_event: where it is, its dict iterator, what it awaited
    last_op,       \* history: name of the last operation applied
    last_args,     \* history: its arguments
    last_result    \* history: what it returned

marketVars == <<market, redis_market, shocks, fired_at, updates>>
tradeVars == <<redis_game, redis_tx, bot, redis_bot, ops>>
runVars == <<run_pc, run_iter, run_decision, run_game>>
toggleVars == <<tog_pc, tog_bot, tog_players, toggles, toggled_off>>
loopVars == <<store_up, now, loop_pc, loop_cfg, update_count, cancel, orphan,
              task_active, is_ended>>
reqVars == <<req_pc, req>>
taskVars == <<market_stored, tasks, active_task, stop_wait>>
customVars == <<gen_input, gen_result, custom_strategy_code, analyzed, custom_decision>>
recVars == <<game_has_id, recording>>
reloadVars == <<market_hashes, saved_market, reference>>
botsVars == <<str_hash, bot_obj, bot_hashes, game_players, bought, saved_bot,
              first_coefficient, analysis>>
legacyVars == <<interactions, run_interactions>>
shopVars == <<buy_pc, buy_req>>
ioVars == <<save_pc, load_pc, load_req>>
removeVars == <<rm_pc, bots_set>>
shutVars == <<active_entries, game_task, shut>>
restVars == <<shopVars, ioVars, removeVars, shutVars>>
moreVars == <<legacyVars, restVars>>
extraVars == <<reqVars, taskVars, pre_buy, customVars, recVars, reloadVars, botsVars,
              moreVars>>
\* what Bot.save_to_redis leaves alone outside the trading session
notSetVars == <<reqVars, taskVars, pre_buy, customVars, recVars, reloadVars, botsVars,
                legacyVars, shopVars, ioVars, rm_pc, shutVars>>
lastVars == <<last_op, last_args, last_result>>
vars == <<market, redis_market, shocks, fired_at, updates, redis_game, redis_tx, bot,
          redis_bot, ops, run_pc, run_iter, run_decision, run_game, tog_pc,
          tog_bot, tog_players, toggles, toggled_off, store_up, now, loop_pc,
          loop_cfg, update_count, cancel, orphan, task_active, is_ended,
          req_pc, req, market_stored, tasks, active_task, stop_wait, pre_buy,
          gen_input, gen_result, custom_strategy_code, analyzed, custom_decision,
          game_has_id, recording, market_hashes, saved_market, reference,
          str_hash, bot_obj, bot_hashes, game_players, bought,
          saved_bot, first_coefficient, analysis, interactions, run_interactions,
          buy_pc, buy_req, save_pc, load_pc, load_req, rm_pc, bots_set,
          active_entries, game_task, shut,
          last_op, last_args, last_result>>


\* ------------------------------------------------------------------------
\* Program constants
\* ------------------------------------------------------------------------
MIN_BC_SUPPLY == 10000
MIN_DOLLAR_SUPPLY == 10000
MIN_PRICE == 10
NUM_SIMULATED_TRADES == 20
EVENT_RESET_TICKS == 10
MIN_TRADE_PERMILLE == 3
MAX_TRADE_PERMILLE == 15

\* one dollar, in cents
Dollar == 10 * MIN_PRICE
MinBcSupply == MIN_BC_SUPPLY
MinDollarSupply == MIN_DOLLAR_SUPPLY * Dollar

\* ------------------------------------------------------------------------
\* Bounds and input domains
\* ------------------------------------------------------------------------
MaxTick == 12
\* trade requests and bot trades in a trading session, and ticks during it
MaxOps == 2
MaxTradeTicks == 1
\* toggleBot calls while the bot runs
MaxToggles == 2
\* start-market requests that are accepted
MaxStarts == 2
\* ticks of a session whose market is reloaded for every tick
MaxReloads == 2
\* user trades during such a session
MaxReloadTrades == 1

\* buy-bot requests
MaxBuyBots == 2
\* store errors that make one trade request retry
MaxStoreErrors == 2

\* trades of a bot object between its construction, saves and loads
MaxBotOps == 1

\* session durations a start-market request asks for
Durations == {2}
\* (totalUsd, totalBc) of sessions whose ratio lies below and above the
\* minimum price: 9 cents and $1 a coin
PriceReserves == { <<10000 * Dollar, 110000>>, <<100 * Dollar, 100>> }
\* durations of 10 seconds and more, for the scheduling of the shock
ScheduleDurations == 10 .. 12
\* (totalUsd, totalBc) of a start-market request; $100 and 100 coins are the
\* defaults
StartReserves == { <<100 * Dollar, 100>>, <<40000 * Dollar, 20000>> }
InitialPrices == { Dollar }
\* one shock's draws of random.random() > 0.5 and random.uniform(0.15, 0.25)
\* (the factor in percent)
ShockDraws == { [is_positive |-> TRUE,  factor |-> 15],
                [is_positive |-> FALSE, factor |-> 25] }
\* one tick's draws of random.random() and random.uniform(min_trade, max_trade):
\* the direction of the first simulated trade, after how many trades the
\* direction flips, and the trade size in permille of bc_supply
TradeDraws ==
    { [first_buy |-> TRUE,  run |-> NUM_SIMULATED_TRADES, permille |-> MAX_TRADE_PERMILLE],
      [first_buy |-> FALSE, run |-> NUM_SIMULATED_TRADES, permille |-> MAX_TRADE_PERMILLE] }

\* ------------------------------------------------------------------------
\* market.py
\* ------------------------------------------------------------------------
Max(a, b) == IF a >= b THEN a ELSE b
Min(a, b) == IF a <= b THEN a ELSE b

\* int(duration * 0.3) .. int(duration * 0.7), the range of random.randint
EventTicks(duration) == ((duration * 3) \div 10) .. ((duration * 7) \div 10)

\* Market.__init__ followed by start_market_updates' override of the supplies
NewMarket(initial_price, event_tick, total_usd, total_bc) ==
    [ current_tick    |-> 0,
      dollar_supply   |-> total_usd,
      bc_supply       |-> total_bc,
      event_tick      |-> event_tick,
      event_triggered |-> FALSE,
      current_price   |-> initial_price,
      price_history   |-> <<initial_price>>,
      md_current_tick |-> 0 ]

\* a * b / c rounded down, computed without leaving TLC's integers
MulDiv(a, b, c) == (a \div c) * b + ((a % c) * b) \div c

ClampNone(floor, x) == x
\* max(MIN_..._SUPPLY, supply)
ClampSupply(floor, x) == Max(floor, x)

ReplaceLastPrice(history, price) ==
    Append(SubSeq(history, 1, Len(history) - 1), price)
\* price_history.append(new_price)
AppendPrice(history, price) == Append(history, price)

\* Market._trigger_event: the supply shock
trigger_event(m, is_positive, shock_factor) ==
    LET bc  == IF is_positive
               THEN (m.bc_supply * (100 - shock_factor)) \div 100
               ELSE (m.bc_supply * (100 + shock_factor)) \div 100
        usd == IF is_positive
               THEN MulDiv(m.dollar_supply, 200 + shock_factor, 200)
               ELSE MulDiv(m.dollar_supply, 200 - shock_factor, 200)
    IN  [m EXCEPT !.bc_supply     = ClampSupply(MinBcSupply, bc),
                  !.dollar_supply = ClampSupply(MinDollarSupply, usd)]

\* direction of the i-th simulated trade of a tick (random.random() > 0.5)
IsBuy(draw, i) == (((i - 1) \div draw.run) % 2 = 0) = draw.first_buy

\* one iteration of updateMarket's simulated-trade loop
SimulatedTrade(s, draw, i) ==
    LET bc0  == IF s.bc <= 0 THEN MinBcSupply ELSE s.bc
        usd0 == IF s.usd <= 0 THEN MinDollarSupply ELSE s.usd
        trade_size == (bc0 * draw.permille) \div 1000
        \* current_price * trade_size
        value == MulDiv(usd0, trade_size, bc0)
        new_bc  == IF IsBuy(draw, i) THEN bc0 - trade_size ELSE bc0 + trade_size
        new_usd == IF IsBuy(draw, i) THEN usd0 + value ELSE usd0 - value
    IN  IF new_bc >= MinBcSupply /\ new_usd >= MinDollarSupply
        THEN [bc |-> new_bc, usd |-> new_usd]
        ELSE [bc |-> bc0, usd |-> usd0]

\* the top of the loop: a supply that is not positive is set to its minimum
SafeSupplies(s) ==
    [bc  |-> IF s.bc <= 0 THEN MinBcSupply ELSE s.bc,
     usd |-> IF s.usd <= 0 THEN MinDollarSupply ELSE s.usd]

RECURSIVE SimulateTrades(_, _, _)
SimulateTrades(s, draw, i) ==
    IF i > NUM_SIMULATED_TRADES THEN s
    ELSE IF s.bc <= 0 \/ s.usd <= 0
    THEN SimulateTrades(SimulatedTrade(SafeSupplies(s), draw, i), draw, i + 1)
    ELSE SimulateTrades(SimulatedTrade(s, draw, i), draw, i + 1)

\* the first test of updateMarket: does the shock fire in the tick after m
EventFires(m) ==
    ~m.event_triggered /\ m.current_tick + 1 >= m.event_tick

PriceUnfloored(usd, bc) == usd \div bc
\* new_price = max(0.10, dollar_supply / bc_supply)
PriceOf(usd, bc) == Max(MIN_PRICE, usd \div bc)

\* Market.updateMarket
updateMarket(m, draw, is_positive, shock_factor) ==
    LET tick == m.current_tick + 1
        m1 == IF EventFires(m)
              THEN trigger_event([m EXCEPT !.event_triggered = TRUE],
                                 is_positive, shock_factor)
              ELSE m
        triggered == IF m1.event_triggered /\ tick >= m.event_tick + EVENT_RESET_TICKS
                     THEN FALSE ELSE m1.event_triggered
        s0 == [bc  |-> ClampSupply(MinBcSupply, m1.bc_supply),
               usd |-> ClampSupply(MinDollarSupply, m1.dollar_supply)]
        s1 == SimulateTrades(s0, draw, 1)
        bc  == ClampSupply(MinBcSupply, s1.bc)
        usd == ClampSupply(MinDollarSupply, s1.usd)
        new_price == PriceOf(usd, bc)
    IN  [ current_tick    |-> tick,
          dollar_supply   |-> usd,
          bc_supply       |-> bc,
          event_tick      |-> m.event_tick,
          event_triggered |-> triggered,
          current_price   |-> new_price,
          price_history   |-> AppendPrice(m.price_history, new_price),
          md_current_tick |-> tick ]

\* ---- Market.save_to_redis and Market.load_from_redis, field by field ----

\* the text str(value) writes for an int, a float and a bool, and
\* json.dumps(value) for a list
StrInt(n) == [type |-> "int", v |-> n]
StrFloat(x) == [type |-> "float", v |-> x]
StrBool(b) == [type |-> "bool", v |-> IF b THEN "True" ELSE "False"]
JsonDumps(list) == [type |-> "json", v |-> list]
\* int(text): only the text of an int parses ("1.0" raises ValueError)
ParsesAsInt(text) == text.type = "int"
\* float(text): the text of an int or of a float parses
ParsesAsFloat(text) == text.type \in {"int", "float"}
ParsesAsJson(text) == text.type = "json"

SameText(text) == text.v
\* text.lower()
LowerText(text) ==
    IF text.v = "True" THEN "true" ELSE IF text.v = "False" THEN "false" ELSE text.v

\* the fields of a Market object the ticking reads and writes
CoreFields == {"current_tick", "dollar_supply", "bc_supply", "event_tick",
               "event_triggered", "current_price", "price_history",
               "md_current_tick"}
Core(full) == [f \in CoreFields |-> full[f]]

RECURSIVE SumSeq(_)
SumSeq(seq) == IF seq = <<>> THEN 0 ELSE Head(seq) + SumSeq(Tail(seq))
RECURSIVE SqrtIn(_, _, _)
\* math.sqrt(n), rounded down: searched by bisection in lo .. hi
SqrtIn(n, lo, hi) ==
    IF lo >= hi THEN lo
    ELSE LET mid == (lo + hi + 1) \div 2
         IN  IF mid <= n \div mid THEN SqrtIn(n, mid, hi) ELSE SqrtIn(n, lo, mid - 1)
\* MarketData.returns(window=10), in permille
Returns(history) ==
    LET n == Len(history)
        start_idx == Max(0, n - 10 - 1)
    IN  IF n < 2 THEN <<>>
        ELSE [k \in 1 .. (n - start_idx - 1) |->
                ((history[start_idx + k + 1] - history[start_idx + k]) * 1000)
                   \div history[start_idx + k]]
\* the volatility updateMarket computes: the standard deviation of the
\* recent returns, 0 for fewer than two of them
Volatility(history) ==
    LET returns == Returns(history)
        n == Len(returns)
    IN  IF n < 2 THEN 0
        ELSE LET mean_return == SumSeq(returns) \div n
                 variance == SumSeq([k \in 1 .. n |->
                                (returns[k] - mean_return) * (returns[k] - mean_return)])
                             \div n
             IN  IF variance > 0 THEN SqrtIn(variance, 1, variance) ELSE 0

\* a Market object with all its fields: those of m, and a MarketData that
\* agrees with them
FullMarket(game_id, users, event_title, m) ==
    [ game_id          |-> game_id,
      users            |-> users,
      event_title      |-> event_title,
      volatility       |-> 0,
      md_dollar_supply |-> m.dollar_supply,
      md_bc_supply     |-> m.bc_supply,
      current_tick     |-> m.current_tick,
      dollar_supply    |-> m.dollar_supply,
      bc_supply        |-> m.bc_supply,
      event_tick       |-> m.event_tick,
      event_triggered  |-> m.event_triggered,
      current_price    |-> m.current_price,
      price_history    |-> m.price_history,
      md_current_tick  |-> m.md_current_tick ]

\* updateMarket on the whole object
updateFull(full, draw, is_positive, shock_factor) ==
    LET u == updateMarket(Core(full), draw, is_positive, shock_factor)
    IN  [FullMarket(full.game_id, full.users, full.event_title, u)
           EXCEPT !.volatility = Volatility(u.price_history)]

\* what Market.save_to_redis writes: the hash market:{id} (info) and the
\* hash market:{id}:data (data)
MarketHashes(full) ==
    [ key  |-> full.game_id,
      info |-> [ game_id         |-> full.game_id,
                 current_tick    |-> StrInt(full.current_tick),
                 users           |-> JsonDumps(full.users),
                 dollar_supply   |-> StrFloat(full.dollar_supply),
                 bc_supply       |-> StrFloat(full.bc_supply),
                 event_tick      |-> StrInt(full.event_tick),
                 event_title     |-> full.event_title,
                 event_triggered |-> StrBool(full.event_triggered) ],
      data |-> [ current_price   |-> StrFloat(full.current_price),
                 price_history   |-> JsonDumps(full.price_history),
                 current_tick    |-> StrInt(full.md_current_tick),
                 volatility      |-> StrFloat(full.volatility),
                 dollar_supply   |-> StrFloat(full.md_dollar_supply),
                 bc_supply       |-> StrFloat(full.md_bc_supply) ] ]

\* market_data.get("event_triggered", "false").lower() == "true"
EventTriggeredOf(text) == LowerText(text) = "true"
\* Market.load_from_redis(game_id) on those hashes: None (found = FALSE)
\* when the key is another game's or a field does not parse, else the object
\* it builds; the MarketData's supplies are the market's
LoadMarket(game_id, hashes) ==
    LET info == hashes.info
        data == hashes.data
        parses == /\ ParsesAsInt(info.current_tick)
                  /\ ParsesAsJson(info.users)
                  /\ ParsesAsFloat(info.dollar_supply)
                  /\ ParsesAsFloat(info.bc_supply)
                  /\ ParsesAsInt(info.event_tick)
                  /\ ParsesAsJson(data.price_history)
                  /\ ParsesAsFloat(data.current_price)
                  /\ ParsesAsInt(data.current_tick)
                  /\ ParsesAsFloat(data.volatility)
    IN  [ found  |-> hashes.key = game_id /\ parses,
          market |->
            [ game_id          |-> game_id,
              users            |-> info.users.v,
              event_title      |-> info.event_title,
              volatility       |-> data.volatility.v,
              md_dollar_supply |-> info.dollar_supply.v,
              md_bc_supply     |-> info.bc_supply.v,
              current_tick     |-> info.current_tick.v,
              dollar_supply    |-> info.dollar_supply.v,
              bc_supply        |-> info.bc_supply.v,
              event_tick       |-> info.event_tick.v,
              event_triggered  |-> EventTriggeredOf(info.event_triggered),
              current_price    |-> data.current_price.v,
              price_history    |-> data.price_history.v,
              md_current_tick  |-> data.current_tick.v ] ]

GameId == "g1"
\* the event title random.choice drew
EventTitles == { "Banana Boom" }
\* the amount a user trades while the market is reloaded tick after tick
ReloadAmounts == { 2 }

IdleMarket == FullMarket(GameId, <<>>, "Supply Crash", NewMarket(Dollar, 0, 0, 0))
ReloadIdle ==
    /\ saved_market = IdleMarket
    /\ market_hashes = MarketHashes(IdleMarket)
    /\ reference = IdleMarket

\* ------------------------------------------------------------------------
\* bot.py, transaction_history.py and the trade endpoints of api_server.py
\* ------------------------------------------------------------------------
Users == {"u1", "u2"}
\* the user who bought the bot (Bot.user_id)
Owner == "u1"
BotId == "bot1"

\* amounts of coin a trade asks for (TradeRequest.amount > 0; Bot.run trades
\* only when the decided amount is > 0)
TradeAmounts == {1, 2, 3}

\* the game room as the front end created it and buy_bot left it: the owner
\* paid $3.00 for the bot, which got 70% of it as capital
StartGame ==
    [ players  |-> [u \in Users |->
                      IF u = Owner THEN [usd |-> 1 * Dollar, coins |-> 1]
                                   ELSE [usd |-> 2 * Dollar, coins |-> 2]],
      totalUsd |-> 1000 * Dollar,
      totalBc  |-> 1000 ]
StartBot == [usd |-> (3 * Dollar * 7) \div 10, bc |-> 0, is_toggled |-> TRUE]

\* str(bool) and str.lower() on its results
PyStr(b) == IF b THEN "True" ELSE "False"
Lower(str) == IF str = "True" THEN "true" ELSE IF str = "False" THEN "false" ELSE str

\* Bot.save_to_redis: the hash it writes
BotRecord(b) ==
    [exists |-> TRUE, usd |-> b.usd, bc |-> b.bc, is_toggled |-> PyStr(b.is_toggled)]
\* a missing bot hash, read with the defaults its readers apply
NoBotRecord == [exists |-> FALSE, usd |-> 0, bc |-> 0, is_toggled |-> "True"]
\* Bot.load_from_redis, for a hash that exists
LoadBot(rec) ==
    [usd |-> rec.usd, bc |-> rec.bc, is_toggled |-> (Lower(rec.is_toggled) = "true")]
\* Bot.run's reading of the stored flag
RunIsToggled(rec) == rec.is_toggled \in {"True", "true", "1"}

NoArgs == [actor |-> "", amount |-> 0, price |-> 0]

\* buy_coins and sell_coins: max_retries
MAX_RETRIES == 100
\* Bot.run saves the bot every 5th iteration
SAVE_EVERY == 5
\* what Bot.analyze returns
Hold == [action |-> "hold", amount |-> 0]
Decisions ==
    {Hold} \cup [action : {"buy", "sell"}, amount : TradeAmounts]

\* the dict a trade hands to TransactionHistory.add_transaction
Transaction(type, actor, amount, price, is_bot) ==
    [type |-> type, actor |-> actor, amount |-> amount, price |-> price,
     total_cost |-> amount * price, is_bot |-> is_bot]

\* TransactionHistory.add_transaction: r.lpush(tx_key, ...)
add_transaction(tx_list, transaction) == <<transaction>> \o tx_list

\* add_transaction without its try block: a store error leaves the call
RaiseOnError(up) == ~up
\* add_transaction's "except Exception: ... return False"
SwallowError(up) == FALSE
\* one call of TransactionHistory.add_transaction against a store that
\* answers (up) or fails: the list it leaves, whether it returned True, and
\* whether an exception left it
RecordTransaction(tx_list, transaction, up) ==
    [tx |-> IF up THEN add_transaction(tx_list, transaction) ELSE tx_list,
     tried |-> TRUE, returned |-> up, raised |-> SwallowError(up)]
\* no call of add_transaction
NotRecorded(tx_list) ==
    [tx |-> tx_list, tried |-> FALSE, returned |-> FALSE, raised |-> FALSE]
\* the recording at the end of Bot.buy and Bot.sell: game_id is
\* game_data.get('gameId', ''), and nothing is recorded when it is empty
\* (no code sets _current_game_id)
BotRecording(tx_list, transaction, has_game_id, up) ==
    IF has_game_id THEN RecordTransaction(tx_list, transaction, up)
    ELSE NotRecorded(tx_list)
NoRecording == [tried |-> FALSE, returned |-> FALSE, raised |-> FALSE]
RecIdle ==
    /\ game_has_id = TRUE
    /\ recording = NoRecording

NoClamp(x) == x
\* max(0.0, balance): "prevent negative balances"
NonNegative(x) == Max(0, x)

AlwaysSufficient(have, need) == FALSE
\* the funds checks: self.usd < cost, self.bc < amount, user_data['usd'] < cost
Insufficient(have, need) == have < need

PoolAfterBuySwapped(game_data, amount, cost) ==
    [game_data EXCEPT !.totalBc = @ + amount, !.totalUsd = @ - cost]
\* Bot.buy: game_data['totalBc'] = total_bc - amount, ['totalUsd'] = total_usd + cost
PoolAfterBuy(game_data, amount, cost) ==
    [game_data EXCEPT !.totalBc = @ - amount, !.totalUsd = @ + cost]
PoolAfterSellKeepsUsd(game_data, amount, revenue) ==
    [game_data EXCEPT !.totalBc = @ + amount]
\* Bot.sell: game_data['totalBc'] = total_bc + amount, ['totalUsd'] = total_usd - revenue
PoolAfterSell(game_data, amount, revenue) ==
    [game_data EXCEPT !.totalBc = @ + amount, !.totalUsd = @ - revenue]

\* Bot.buy on the bot self and the game_data dict; tx_list is the stored
\* transaction list the call records into
BotBuy(self, game_data, tx_list, amount, price, user_id) ==
    LET cost == amount * price
    IN  IF Insufficient(self.usd, cost)
        THEN [ok |-> FALSE, self |-> self, game_data |-> game_data, tx |-> tx_list]
        ELSE
          LET pool == PoolAfterBuy(game_data, amount, cost)
              players == pool.players
          IN  [ ok   |-> TRUE,
                self |-> [self EXCEPT !.usd = NonNegative(@ - cost),
                                      !.bc  = NonNegative(@ + amount)],
                game_data |->
                  IF user_id \in DOMAIN players
                  THEN [pool EXCEPT
                          !.players[user_id].coins = NonNegative(@ + amount),
                          !.players[user_id].usd   = NonNegative(@ - cost)]
                  ELSE pool,
                tx |-> add_transaction(tx_list,
                          Transaction("buy", BotId, amount, price, TRUE)) ]

\* Bot.sell
BotSell(self, game_data, tx_list, amount, price, user_id) ==
    IF Insufficient(self.bc, amount)
    THEN [ok |-> FALSE, self |-> self, game_data |-> game_data, tx |-> tx_list]
    ELSE
      LET revenue == amount * price
          pool == PoolAfterSell(game_data, amount, revenue)
          players == pool.players
      IN  [ ok   |-> TRUE,
            self |-> [self EXCEPT !.bc  = NonNegative(@ - amount),
                                  !.usd = NonNegative(@ + revenue)],
            game_data |->
              IF user_id \in DOMAIN players
              THEN [pool EXCEPT
                      !.players[user_id].coins = NonNegative(@ - amount),
                      !.players[user_id].usd   = NonNegative(@ + revenue)]
              ELSE pool,
            tx |-> add_transaction(tx_list,
                      Transaction("sell", BotId, amount, price, TRUE)) ]

\* the buy-coins endpoint on the stored market m and the stored players
buy_coins(m, players, tx_list, user_id, amount) ==
    LET current_price == m.current_price
        cost == amount * current_price
        user_data == players[user_id]
    IN  IF Insufficient(user_data.usd, cost)
        THEN [ok |-> FALSE, amount |-> 0, market |-> m, players |-> players,
              tx |-> tx_list]
        ELSE [ ok |-> TRUE,
               amount |-> amount,
               market |-> [m EXCEPT !.dollar_supply = @ + cost,
                                    !.bc_supply = @ - amount],
               players |-> [players EXCEPT
                              ![user_id].usd   = NonNegative(@ - cost),
                              ![user_id].coins = NonNegative(@ + amount)],
               tx |-> add_transaction(tx_list,
                         Transaction("buy", user_id, amount, current_price, FALSE)) ]

RequestedAmount(amount, user_coins) == amount
\* sell_coins: actual_amount = min(request.amount, user_coins)
ActualAmount(amount, user_coins) == Min(amount, user_coins)

\* the sell-coins endpoint
sell_coins(m, players, tx_list, user_id, amount) ==
    LET current_price == m.current_price
        user_data == players[user_id]
        actual_amount == ActualAmount(amount, user_data.coins)
        revenue == actual_amount * current_price
    IN  IF actual_amount <= 0
        THEN [ok |-> FALSE, amount |-> 0, market |-> m, players |-> players,
              tx |-> tx_list]
        ELSE [ ok |-> TRUE,
               amount |-> actual_amount,
               market |-> [m EXCEPT !.dollar_supply = @ - revenue,
                                    !.bc_supply = @ + actual_amount],
               players |-> [players EXCEPT
                              ![user_id].usd   = NonNegative(@ + revenue),
                              ![user_id].coins = NonNegative(@ - actual_amount)],
               tx |-> add_transaction(tx_list,
                         Transaction("sell", user_id, actual_amount, current_price, FALSE)) ]

\* one second, in the unit of the clock
Second == 2
\* session durations, in seconds, and update intervals, in half seconds
LoopDurations == {2, 3}
UpdateIntervals == {1, 2}
\* how long one load and update can take, in half seconds
UpdateTimes == {0, 3}

\* no tick loop running
LoopIdle ==
    /\ store_up = TRUE
    /\ now = 0
    /\ loop_pc = "done"
    /\ loop_cfg = [end_time |-> 0, update_interval |-> Second]
    /\ update_count = 0
    /\ cancel = "none"
    /\ orphan = FALSE
    /\ task_active = FALSE
    /\ is_ended = FALSE

\* no trade request in progress
NoRequest == [action |-> "", userId |-> "", amount |-> 0]
ReqIdle ==
    /\ req_pc = "idle"
    /\ req = NoRequest

\* no start-market or stop-market request yet
NoTasks ==
    /\ tasks = <<>>
    /\ active_task = 0
    /\ stop_wait = 0

\* the bot's wallet and the pool totals a Bot.buy or Bot.sell works on
Snapshot(self, game_data) ==
    [usd |-> self.usd, bc |-> self.bc,
     totalUsd |-> game_data.totalUsd, totalBc |-> game_data.totalBc]
NoSnapshot == [usd |-> 0, bc |-> 0, totalUsd |-> 0, totalBc |-> 0]

\* ---- custom strategies (bot.py) ----

\* the largest amount _analyze_custom lets through
MAX_CUSTOM_AMOUNT == 1000
\* the amount the safe default strategy trades
DEFAULT_STRATEGY_AMOUNT == 200

\* a Python value used as an amount: a number, float('nan'), or a value
\* float() rejects (None, 'abc')
Num(v) == [type |-> "num", v |-> v]
NaN == [type |-> "nan", v |-> 0]
NotANumber == [type |-> "other", v |-> 0]
AmountValues == {Num(0 - 5), Num(0), Num(DEFAULT_STRATEGY_AMOUNT),
                 Num(MAX_CUSTOM_AMOUNT + 500), NaN, NotANumber}

\* Python's <, min(a, b) and max(a, b) on floats: every comparison with nan
\* is False, and min and max return their first argument unless the second
\* is strictly smaller or larger
PyLess(a, b) == a.type = "num" /\ b.type = "num" /\ a.v < b.v
PyMin(a, b) == IF PyLess(b, a) THEN b ELSE a
PyMax(a, b) == IF PyLess(a, b) THEN b ELSE a

\* what one call custom_strategy(coins, current_price) can do
Raises == [kind |-> "raises", has_action |-> FALSE, has_amount |-> FALSE,
           action |-> "", amount |-> NotANumber]
NonDict == [kind |-> "non_dict", has_action |-> FALSE, has_amount |-> FALSE,
            action |-> "", amount |-> NotANumber]
\* a dict without 'action' or without 'amount' (the value under the key that
\* is there is never read), or with both
MissingKey ==
    {[kind |-> "dict", has_action |-> ha, has_amount |-> hm,
      action |-> "", amount |-> NotANumber] :
        <<ha, hm>> \in {<<FALSE, FALSE>>, <<FALSE, TRUE>>, <<TRUE, FALSE>>}}
Outcomes ==
    {Raises, NonDict} \cup MissingKey \cup
    [kind : {"dict"}, has_action : {TRUE}, has_amount : {TRUE},
     action : {"buy", "sell", "hold", "short"}, amount : AmountValues]
\* the calls of the safe default strategy
DefaultOutcomes ==
    [kind : {"dict"}, has_action : {TRUE}, has_amount : {TRUE},
     action : {"hold"}, amount : {Num(0)}] \cup
    [kind : {"dict"}, has_action : {TRUE}, has_amount : {TRUE},
     action : {"buy", "sell"}, amount : {Num(DEFAULT_STRATEGY_AMOUNT)}]

\* strategy code, by what matters to its users: whether there is any, whether
\* its text contains "def custom_strategy", whether exec succeeds, whether
\* exec leaves a custom_strategy behind, and whether it is the safe default
NoCode == [present |-> FALSE, has_def |-> FALSE, exec_ok |-> FALSE,
           defines |-> FALSE, default |-> FALSE]
DefaultCode == [present |-> TRUE, has_def |-> TRUE, exec_ok |-> TRUE,
                defines |-> TRUE, default |-> TRUE]
GeneratedCodes ==
    [present : {TRUE}, has_def : BOOLEAN, exec_ok : BOOLEAN, defines : BOOLEAN,
     default : {FALSE}]
OutcomesOf(code) == IF code.default THEN DefaultOutcomes ELSE Outcomes

HoldDecision == [status |-> "returned", action |-> "hold", amount |-> Num(0)]
NoDecision == [status |-> "none", action |-> "", amount |-> Num(0)]

\* Bot._analyze_custom
\* if amount < 0: amount = 0.0
ZeroIfNegative(amount) == IF PyLess(amount, Num(0)) THEN Num(0) ELSE amount
analyze_custom(code, outcome) ==
    IF ~code.present THEN HoldDecision
    ELSE IF ~code.exec_ok THEN HoldDecision
    ELSE IF ~code.defines THEN HoldDecision
    ELSE IF outcome.kind = "raises" THEN HoldDecision
    ELSE IF outcome.kind # "dict" THEN HoldDecision
    ELSE IF ~outcome.has_action \/ ~outcome.has_amount THEN HoldDecision
    ELSE IF outcome.action \notin {"buy", "sell", "hold"} THEN HoldDecision
    ELSE IF outcome.amount.type = "other" THEN HoldDecision
    ELSE [status |-> "returned", action |-> outcome.action,
          amount |-> PyMin(PyMax(ZeroIfNegative(outcome.amount), Num(0)),
                           Num(MAX_CUSTOM_AMOUNT))]

\* Bot.analyze of a custom bot
analyze(code, coins_empty, outcome) ==
    IF coins_empty THEN HoldDecision ELSE analyze_custom(code, outcome)

\* generate_custom_bot_strategy: the reply's code is returned when it passes
\* the validation, the safe default on every failure inside the try block;
\* a missing GEMINI_API_KEY raises ValueError before the try block
\* the validation of the test call's result
ValidTestResult(test_result) ==
    /\ test_result.kind = "dict"
    /\ test_result.has_action /\ test_result.has_amount
    /\ test_result.action \in {"buy", "sell", "hold"}
generate_custom_bot_strategy(input, test_result) ==
    IF ~input.api_key THEN [status |-> "raised", code |-> NoCode]
    ELSE IF ~input.reply_ok THEN [status |-> "returned", code |-> DefaultCode]
    ELSE IF ~input.code.has_def THEN [status |-> "returned", code |-> DefaultCode]
    ELSE IF ~input.code.exec_ok THEN [status |-> "returned", code |-> DefaultCode]
    ELSE IF ~input.code.defines THEN [status |-> "returned", code |-> DefaultCode]
    ELSE IF ~ValidTestResult(test_result)
         THEN [status |-> "returned", code |-> DefaultCode]
    ELSE [status |-> "returned", code |-> input.code]

NoGenInput == [api_key |-> TRUE, reply_ok |-> FALSE, code |-> NoCode]
NoGenResult == [status |-> "none", code |-> NoCode]
NoAnalysis == [coins_empty |-> TRUE, outcome |-> NonDict]
CustomIdle ==
    /\ gen_input = NoGenInput
    /\ gen_result = NoGenResult
    /\ custom_strategy_code = NoCode
    /\ analyzed = NoAnalysis
    /\ custom_decision = NoDecision

\* ------------------------------------------------------------------------
\* bot.py and bot_operations.py: the whole Bot object, the hash
\* bot:{game_id}:{bot_id} field by field, buyBot, and the momentum strategy.
\* The coefficient, thresholds and ratios are in percent, the amounts a
\* strategy decides in hundredths of a coin.
\* ------------------------------------------------------------------------
\* an Optional[str]: None, or the string s
None == [none |-> TRUE, s |-> ""]
Some(s) == [none |-> FALSE, s |-> s]
\* an Optional[float]
NoNumber == [none |-> TRUE, v |-> 0]
Number(v) == [none |-> FALSE, v |-> v]
\* x or default, for an Optional[str] x: None and '' are both falsy
OrElse(x, default) == IF x.none \/ x.s = "" THEN default ELSE x.s

\* the ids uuid.uuid4() draws for bots
BotUuids == {"b1", "b2"}
\* the strings a bot hashes: its bot_id, and bot_id + 'amount'
HashedTexts == BotUuids \cup { id \o "amount" : id \in BotUuids }
\* hash(text) in the interpreter processes considered: str hashes are salted
\* per process, so another process has another function
HashValues == {0, 17}
ProcessHashes ==
    { [t \in HashedTexts |-> IF t \in BotUuids THEN h ELSE 39 - h] : h \in HashValues }

\* Bot._get_default_parameters
DefaultParameters(bot_type) ==
    CASE bot_type = "momentum" ->
           [short_window |-> 5, long_window |-> 20, trade_size |-> 40,
            aggressiveness |-> 100]
      [] bot_type = "mean_reversion" ->
           [lookback_window |-> 20, std_threshold |-> 150, trade_size |-> 50]
      [] bot_type = "market_maker" ->
           [target_bc_ratio |-> 50, rebalance_threshold |-> 10, trade_size |-> 30]
      [] bot_type = "hedger" ->
           [volatility_threshold |-> 5, low_vol_ratio |-> 70, high_vol_ratio |-> 30,
            trade_size |-> 40]
      [] OTHER ->
           [min_trade |-> 2, max_trade |-> 60, trade_probability |-> 30]

\* the defaults of the arguments of Bot.__init__
BotDefaults ==
    [ bot_id |-> None, is_toggled |-> TRUE, usd_given |-> 0, usd |-> 0, bc |-> 0,
      bot_type |-> None, behavior_coefficient |-> NoNumber, user_id |-> None,
      custom_strategy_code |-> None, bot_name |-> None ]

\* 0.8 + (hash(self.bot_id) % 40) / 100.0
GeneratedCoefficient(bot_id, hash) == 80 + (hash[bot_id] % 40)

\* Bot.__init__ with the arguments args, in a process whose str hash is hash
\* and whose uuid.uuid4() draws uuid
NewBot(args, uuid, hash) ==
    LET bot_id == OrElse(args.bot_id, uuid)
        bot_type == OrElse(args.bot_type, "random")
    IN  [ bot_id     |-> bot_id,
          is_toggled |-> args.is_toggled,
          usd_given  |-> args.usd_given,
          usd        |-> args.usd,
          bc         |-> args.bc,
          bot_type   |-> bot_type,
          user_id    |-> args.user_id,
          custom_strategy_code |-> args.custom_strategy_code,
          bot_name   |-> OrElse(args.bot_name, "Bot_" \o bot_id),
          parameters |-> DefaultParameters(bot_type),
          behavior_coefficient |->
              IF ~args.behavior_coefficient.none
              THEN args.behavior_coefficient.v
              ELSE GeneratedCoefficient(bot_id, hash) ]

\* Bot.save_to_redis: the mapping it writes to bot:{game_id}:{bot_id}
FullBotHash(self) ==
    [ exists     |-> TRUE,
      bot_id     |-> self.bot_id,
      is_toggled |-> StrBool(self.is_toggled),
      usd_given  |-> StrFloat(self.usd_given),
      usd        |-> StrFloat(self.usd),
      bc         |-> StrFloat(self.bc),
      bot_type   |-> self.bot_type,
      bot_name   |-> self.bot_name,
      behavior_coefficient |-> StrFloat(self.behavior_coefficient),
      parameters |-> JsonDumps(self.parameters),
      user_id    |-> OrElse(self.user_id, ""),
      custom_strategy_code |-> OrElse(self.custom_strategy_code, "") ]
NoFullHash == [exists |-> FALSE]
NoBotObject == [exists |-> FALSE, bot |-> [bot_id |-> ""]]
EmptyDict == [type |-> "dict"]

\* Bot.load_from_redis(game_id, bot_id) on the stored hashes: None for a key
\* that does not exist or a number that does not parse
LoadFullBot(hashes, bot_id, hash) ==
    IF ~hashes[bot_id].exists THEN NoBotObject
    ELSE
      LET bot_data == hashes[bot_id]
          code == bot_data.custom_strategy_code
      IN  IF ~ (ParsesAsFloat(bot_data.usd_given) /\ ParsesAsFloat(bot_data.usd)
                  /\ ParsesAsFloat(bot_data.bc))
          THEN NoBotObject
          ELSE
            LET made ==
                  NewBot([ bot_id     |-> Some(bot_data.bot_id),
                           is_toggled |-> (LowerText(bot_data.is_toggled) = "true"),
                           usd_given  |-> bot_data.usd_given.v,
                           usd        |-> bot_data.usd.v,
                           bc         |-> bot_data.bc.v,
                           bot_type   |-> Some(bot_data.bot_type),
                           behavior_coefficient |->
                               IF ParsesAsFloat(bot_data.behavior_coefficient)
                               THEN Number(bot_data.behavior_coefficient.v)
                               ELSE NoNumber,
                           user_id    |-> Some(bot_data.user_id),
                           custom_strategy_code |->
                               IF code = "" THEN None ELSE Some(code),
                           bot_name   |-> Some(bot_data.bot_name) ],
                         bot_id, hash)
            IN  [ exists |-> TRUE,
                  bot |-> [made EXCEPT !.parameters =
                             IF ParsesAsJson(bot_data.parameters)
                             THEN bot_data.parameters.v ELSE EmptyDict] ]

\* the players of the game room as buyBot reads them: a player carries its
\* id in the field userId or in the field playerId, and a list of bots
StartPlayers ==
    << [userId |-> Some("u1"), playerId |-> None, bots |-> <<>>],
       [userId |-> None, playerId |-> Some("u2"), bots |-> <<>>] >>
\* the index of the first player whose player.get('userId') is user_id, 0 for none
UserIndex(players, user_id) ==
    LET found == { i \in 1 .. Len(players) : players[i].userId = Some(user_id) }
    IN  IF found = {} THEN 0 ELSE CHOOSE i \in found : \A j \in found : i <= j

\* buyBot(user_id, game_id, bot_type, initial_usd) on a game that exists and
\* a store that answers; the Bot.run thread it starts is not part of it
buyBot(players, hashes, user_id, bot_type, initial_usd, uuid, hash) ==
    LET user_index == UserIndex(players, user_id)
    IN  IF user_index = 0
        THEN [result |-> None, players |-> players, hashes |-> hashes]
        ELSE
          LET new == NewBot([BotDefaults EXCEPT !.is_toggled = TRUE,
                                                !.usd_given = initial_usd,
                                                !.usd = initial_usd,
                                                !.bc = 0,
                                                !.bot_type = Some(bot_type)],
                            uuid, hash)
          IN  [ result  |-> Some(new.bot_id),
                players |-> [players EXCEPT ![user_index].bots =
                               Append(@, [botId |-> new.bot_id, botName |-> bot_type])],
                hashes  |-> [hashes EXCEPT ![new.bot_id] = FullBotHash(new)] ]

\* hundredths of a coin in a coin
Centi == 100
SignalNeverIgnored(ignore) == FALSE
\* if random.random() < 0.05: the 5% of the calls in which a momentum bot
\* ignores its signal
IgnoreSignal(ignore) == ignore
\* Bot._scale_trade_amount, for a price in cents and amounts in hundredths of
\* a coin
scale_trade_amount(self, base_amount, current_price, action) ==
    IF action = "buy"
    THEN LET max_bc_from_usd ==
                 IF current_price > 0 THEN (self.usd * 20) \div current_price ELSE 0
             scaled_amount == Max(base_amount, max_bc_from_usd)
             max_affordable ==
                 IF current_price > 0 THEN (self.usd * Centi) \div current_price ELSE 0
         IN  Min(scaled_amount, max_affordable)
    ELSE IF action = "sell"
    THEN LET max_bc_to_use == (self.bc * Centi * 20) \div 100
             scaled_amount == Max(base_amount, max_bc_to_use)
         IN  Min(scaled_amount, self.bc * Centi)
    ELSE base_amount

\* coins[-n:]
LastN(coins, n) ==
    IF Len(coins) >= n THEN SubSeq(coins, Len(coins) - n + 1, Len(coins)) ELSE coins

\* Bot.analyze of a momentum bot: _analyze_momentum(coins, current_price) with
\* current_price = coins[-1]; ignore is the draw random.random() < 0.05
analyze_momentum(self, coins, hash, ignore) ==
    LET hold == [action |-> "hold", amount |-> 0]
        current_price == coins[Len(coins)]
        short_window ==
            Max(3, (self.parameters.short_window * self.behavior_coefficient) \div 100)
        long_window ==
            Max(short_window + 1,
                (self.parameters.long_window * self.behavior_coefficient) \div 100)
        prices == LastN(coins, long_window)
        short_prices == LastN(prices, short_window)
        long_prices == LastN(prices, long_window)
        \* threshold, in thousandths
        threshold == 15 + (hash[self.bot_id] % 10)
        \* trade_size * aggressiveness * (0.8 + (hash(bot_id + 'amount') % 40) / 100)
        amount == (self.parameters.trade_size * self.parameters.aggressiveness
                     * (80 + (hash[self.bot_id \o "amount"] % 40)) * Centi) \div 10000
        \* short_ma against long_ma * (1 +- threshold), cross-multiplied
        short_side == SumSeq(short_prices) * Len(long_prices) * 1000
        long_side == SumSeq(long_prices) * Len(short_prices)
    IN  IF coins = <<>> \/ Len(coins) < 2 \/ Len(prices) < short_window THEN hold
        ELSE IF IgnoreSignal(ignore) THEN hold
        ELSE IF short_side > long_side * (1000 + threshold)
        THEN [action |-> "buy",
              amount |-> scale_trade_amount(self, amount, current_price, "buy")]
        ELSE IF short_side < long_side * (1000 - threshold)
        THEN [action |-> "sell",
              amount |-> scale_trade_amount(self, amount, current_price, "sell")]
        ELSE hold

NoAnalyze == [called |-> FALSE, coins |-> <<>>, ignore |-> FALSE,
              decision |-> [action |-> "hold", amount |-> 0]]
NoPurchase == [called |-> FALSE, user_id |-> "", bot_type |-> "", initial_usd |-> 0,
               result |-> None]
BotsIdle ==
    /\ str_hash = [t \in HashedTexts |-> 0]
    /\ bot_obj = NoBotObject
    /\ bot_hashes = [id \in BotUuids |-> NoFullHash]
    /\ game_players = StartPlayers
    /\ bought = NoPurchase
    /\ saved_bot = [id \in BotUuids |-> NoBotObject]
    /\ first_coefficient = [id \in BotUuids |-> NoNumber]
    /\ analysis = NoAnalyze

\* no buy-bot request yet
NoBuyRequest ==
    [ userId |-> "", cost |-> 0, bot_id |-> "", outcome |-> "none", count |-> 0,
      players |-> StartGame.players, game_players |-> StartPlayers,
      hashes |-> [id \in BotUuids |-> NoFullHash] ]
\* no load beside the tick yet
NoLoad ==
    [ info |-> MarketHashes(IdleMarket).info, returned |-> FALSE,
      result |-> [found |-> FALSE, market |-> IdleMarket] ]
\* the game ids of the games started before a shutdown
ShutdownGames == {"g1", "g2", "g3"}
\* shutdown_event has not been called
NoShutdown ==
    [ pc |-> "idle", used |-> 0, pos |-> 0, current |-> "g1", begun |-> {},
      awaited |-> {} ]
MoreIdle ==
    /\ interactions = <<>>
    /\ run_interactions = <<>>
    /\ buy_pc = "idle"
    /\ buy_req = NoBuyRequest
    /\ save_pc = "idle"
    /\ load_pc = "idle"
    /\ load_req = NoLoad
    /\ rm_pc = "none"
    /\ bots_set = TRUE
    /\ active_entries = <<>>
    /\ game_task = [g \in ShutdownGames |-> "none"]
    /\ shut = NoShutdown

ExtraIdle ==
    /\ ReqIdle
    /\ market_stored = TRUE
    /\ NoTasks
    /\ pre_buy = NoSnapshot
    /\ CustomIdle
    /\ RecIdle
    /\ ReloadIdle
    /\ BotsIdle
    /\ MoreIdle

\* no trading going on (the market-only session)
TradeIdle ==
    /\ redis_game = StartGame
    /\ redis_tx = <<>>
    /\ bot = StartBot
    /\ redis_bot = BotRecord(StartBot)
    /\ ops = 0
    /\ run_pc = "top"
    /\ run_iter = 0
    /\ run_decision = Hold
    /\ run_game = StartGame
    /\ tog_pc = "idle"
    /\ tog_bot = StartBot
    /\ tog_players = StartGame.players
    /\ toggles = 0
    /\ toggled_off = FALSE
    /\ LoopIdle
    /\ ExtraIdle

\* ------------------------------------------------------------------------
\* A market session: one Market object, created by a start-market request
\* and updated tick after tick, saved to a store that is up.
\* ------------------------------------------------------------------------
MarketInit ==
    /\ \E d \in Durations, r \in StartReserves, p \in InitialPrices :
         \E et \in EventTicks(d) :
            market = NewMarket(p, et, r[1], r[2])
    /\ redis_market = market
    /\ shocks = 0
    /\ fired_at = 0
    /\ updates = 0
    /\ TradeIdle
    /\ last_op = "start_market_updates"
    /\ last_args = NoArgs
    /\ last_result = TRUE

MarketTick ==
    /\ UNCHANGED extraVars
    /\ UNCHANGED loopVars
    /\ market.current_tick < MaxTick
    /\ \E draw \in TradeDraws, shock \in ShockDraws :
          market' = updateMarket(market, draw, shock.is_positive, shock.factor)
    /\ redis_market' = market'
    /\ shocks' = IF EventFires(market) THEN shocks + 1 ELSE shocks
    /\ fired_at' = IF EventFires(market) THEN market.current_tick + 1 ELSE fired_at
    /\ updates' = updates + 1
    /\ last_op' = "updateMarket"
    /\ UNCHANGED <<tradeVars, runVars, toggleVars, last_args, last_result>>

MarketNext == MarketTick

SpecMarket == MarketInit /\ [][MarketNext]_vars

\* ------------------------------------------------------------------------
\* A trading session: a started market, two players and the owner's bot.
\* Each step is one whole request or one whole trading iteration of the
\* bot's run loop (no interleaving inside a step), against a store that is up.
\* ------------------------------------------------------------------------
TradeInit ==
    /\ \E et \in EventTicks(2) :
          market = NewMarket(Dollar, et, 40000 * Dollar, 20000)
    /\ redis_market = market
    /\ shocks = 0
    /\ fired_at = 0
    /\ updates = 0
    /\ TradeIdle
    /\ last_op = "start_market_updates"
    /\ last_args = NoArgs
    /\ last_result = TRUE

\* coins[-1] of Bot._get_coins_from_redis: the last stored price
BotPrice == redis_market.price_history[Len(redis_market.price_history)]

\* Bot.run, one iteration that decides to buy: load the game data, Bot.buy,
\* and on success save the bot and the game data
BotBuyStep(amount) ==
    /\ UNCHANGED <<reqVars, taskVars, customVars, recVars, reloadVars, botsVars, moreVars>>
    /\ UNCHANGED loopVars
    /\ ops < MaxOps
    /\ bot.is_toggled
    /\ LET r == BotBuy(bot, redis_game, redis_tx, amount, BotPrice, Owner)
       IN  /\ bot' = r.self
           /\ redis_bot' = IF r.ok THEN BotRecord(r.self) ELSE redis_bot
           /\ redis_game' = r.game_data
           /\ redis_tx' = r.tx
           /\ last_result' = r.ok
           /\ pre_buy' = IF r.ok THEN Snapshot(bot, redis_game) ELSE pre_buy
    /\ ops' = ops + 1
    /\ last_op' = "Bot.buy"
    /\ last_args' = [actor |-> BotId, amount |-> amount, price |-> BotPrice]
    /\ UNCHANGED <<marketVars, runVars, toggleVars>>

\* Bot.run, one iteration that decides to sell
BotSellStep(amount) ==
    /\ UNCHANGED extraVars
    /\ UNCHANGED loopVars
    /\ ops < MaxOps
    /\ bot.is_toggled
    /\ LET r == BotSell(bot, redis_game, redis_tx, amount, BotPrice, Owner)
       IN  /\ bot' = r.self
           /\ redis_bot' = IF r.ok THEN BotRecord(r.self) ELSE redis_bot
           /\ redis_game' = r.game_data
           /\ redis_tx' = r.tx
           /\ last_result' = r.ok
    /\ ops' = ops + 1
    /\ last_op' = "Bot.sell"
    /\ last_args' = [actor |-> BotId, amount |-> amount, price |-> BotPrice]
    /\ UNCHANGED <<marketVars, runVars, toggleVars>>

\* POST /api/game/buy-coins
BuyCoins(user_id, amount) ==
    /\ UNCHANGED extraVars
    /\ UNCHANGED loopVars
    /\ ops < MaxOps
    /\ LET r == buy_coins(redis_market, redis_game.players, redis_tx, user_id, amount)
       IN  /\ redis_market' = r.market
           /\ market' = r.market
           /\ redis_game' = [redis_game EXCEPT !.players = r.players]
           /\ redis_tx' = r.tx
           /\ last_result' = r.ok
    /\ ops' = ops + 1
    /\ last_op' = "buy_coins"
    /\ last_args' = [actor |-> user_id, amount |-> amount,
                     price |-> redis_market.current_price]
    /\ UNCHANGED <<shocks, fired_at, updates, bot, redis_bot, runVars, toggleVars>>

\* POST /api/game/sell-coins
SellCoins(user_id, amount) ==
    /\ UNCHANGED extraVars
    /\ UNCHANGED loopVars
    /\ ops < MaxOps
    /\ LET r == sell_coins(redis_market, redis_game.players, redis_tx, user_id, amount)
       IN  /\ redis_market' = r.market
           /\ market' = r.market
           /\ redis_game' = [redis_game EXCEPT !.players = r.players]
           /\ redis_tx' = r.tx
           /\ last_result' = r.ok
    /\ ops' = ops + 1
    /\ last_op' = "sell_coins"
    /\ last_args' = [actor |-> user_id, amount |-> amount,
                     price |-> redis_market.current_price]
    /\ UNCHANGED <<shocks, fired_at, updates, bot, redis_bot, runVars, toggleVars>>

\* run_market_updates, one iteration: load the market, updateMarket (which
\* saves it)
TradeTick ==
    /\ UNCHANGED extraVars
    /\ UNCHANGED loopVars
    /\ updates < MaxTradeTicks
    /\ \E draw \in TradeDraws, shock \in ShockDraws :
          market' = updateMarket(redis_market, draw, shock.is_positive, shock.factor)
    /\ redis_market' = market'
    /\ shocks' = IF EventFires(redis_market) THEN shocks + 1 ELSE shocks
    /\ fired_at' = IF EventFires(redis_market) THEN redis_market.current_tick + 1 ELSE fired_at
    /\ updates' = updates + 1
    /\ last_op' = "updateMarket"
    /\ UNCHANGED <<tradeVars, runVars, toggleVars, last_args, last_result>>

TradeNext ==
    \/ \E amount \in TradeAmounts : BotBuyStep(amount)
    \/ \E amount \in TradeAmounts : BotSellStep(amount)
    \/ \E user_id \in Users, amount \in TradeAmounts : BuyCoins(user_id, amount)
    \/ \E user_id \in Users, amount \in TradeAmounts : SellCoins(user_id, amount)
    \/ TradeTick

SpecTrade == TradeInit /\ [][TradeNext]_vars

\* ------------------------------------------------------------------------
\* The bot's run thread (Bot.run) against toggleBot calls.  Each step is one
\* access to the store, so the two interleave between any two accesses.
\* ------------------------------------------------------------------------

\* Bot.run, top of an iteration: r.exists(bot_key)
RunCheckExists ==
    /\ UNCHANGED extraVars
    /\ UNCHANGED loopVars
    /\ run_pc = "top"
    /\ run_iter' = (run_iter + 1) % SAVE_EVERY
    /\ run_pc' = IF redis_bot.exists THEN "read_toggle" ELSE "stopped"
    /\ UNCHANGED <<marketVars, tradeVars, run_decision, run_game, toggleVars,
                   lastVars>>

\* Bot.run: reload the toggle state; an OFF bot goes back to the top
RunReadToggle ==
    /\ UNCHANGED extraVars
    /\ UNCHANGED loopVars
    /\ run_pc = "read_toggle"
    /\ bot' = [bot EXCEPT !.is_toggled = RunIsToggled(redis_bot)]
    /\ run_pc' = IF bot'.is_toggled THEN "analyze" ELSE "top"
    /\ UNCHANGED <<marketVars, redis_game, redis_tx, redis_bot, ops, run_iter,
                   run_decision, run_game, toggleVars, lastVars>>

\* Bot.run: read the prices and decide (Bot.analyze); "hold" skips the trade
RunAnalyze ==
    /\ UNCHANGED extraVars
    /\ UNCHANGED loopVars
    /\ run_pc = "analyze"
    /\ \E decision \in Decisions :
          /\ decision.action # "hold" => ops < MaxOps
          /\ run_decision' = [action |-> decision.action,
                              amount |-> decision.amount, price |-> BotPrice]
          /\ run_pc' = IF decision.action = "hold" THEN "periodic_save"
                       ELSE "load_game"
    /\ UNCHANGED <<marketVars, tradeVars, run_iter, run_game, toggleVars,
                   lastVars>>

\* Bot.run: game_data = self._get_game_data_from_redis(game_id)
RunLoadGame ==
    /\ UNCHANGED extraVars
    /\ UNCHANGED loopVars
    /\ run_pc = "load_game"
    /\ run_game' = redis_game
    /\ run_pc' = "trade"
    /\ UNCHANGED <<marketVars, tradeVars, run_iter, run_decision, toggleVars,
                   lastVars>>

\* Bot.run: self.buy or self.sell on the loaded game_data; the call records
\* the transaction in the store
RunTrade ==
    /\ UNCHANGED <<reqVars, taskVars, customVars, recVars, reloadVars, botsVars, moreVars>>
    /\ UNCHANGED loopVars
    /\ run_pc = "trade"
    /\ LET d == run_decision
           r == IF d.action = "buy"
                THEN BotBuy(bot, run_game, redis_tx, d.amount, d.price, Owner)
                ELSE BotSell(bot, run_game, redis_tx, d.amount, d.price, Owner)
       IN  /\ bot' = r.self
           /\ run_game' = r.game_data
           /\ redis_tx' = r.tx
           /\ last_result' = r.ok
           /\ run_pc' = IF r.ok THEN "save_bot" ELSE "periodic_save"
           /\ pre_buy' = IF r.ok /\ d.action = "buy"
                         THEN Snapshot(bot, run_game) ELSE pre_buy
           /\ last_op' = IF d.action = "buy" THEN "Bot.buy" ELSE "Bot.sell"
           /\ last_args' = [actor |-> BotId, amount |-> d.amount, price |-> d.price]
    /\ ops' = ops + 1
    /\ UNCHANGED <<marketVars, redis_game, redis_bot, run_iter, run_decision,
                   toggleVars>>

\* Bot.run after a successful trade: self.save_to_redis(game_id)
RunSaveBot ==
    /\ UNCHANGED notSetVars
    /\ UNCHANGED loopVars
    /\ run_pc = "save_bot"
    /\ redis_bot' = BotRecord(bot)
    /\ bots_set' = TRUE
    /\ run_pc' = "save_game"
    /\ UNCHANGED <<marketVars, redis_game, redis_tx, bot, ops, run_iter,
                   run_decision, run_game, toggleVars, lastVars>>

\* Bot.run after a successful trade: self._save_game_data_to_redis
RunSaveGame ==
    /\ UNCHANGED extraVars
    /\ UNCHANGED loopVars
    /\ run_pc = "save_game"
    /\ redis_game' = run_game
    /\ run_pc' = "periodic_save"
    /\ UNCHANGED <<marketVars, redis_tx, bot, redis_bot, ops, run_iter,
                   run_decision, run_game, toggleVars, lastVars>>

\* Bot.run, end of an iteration: save the bot every SAVE_EVERY iterations
RunPeriodicSave ==
    /\ UNCHANGED notSetVars
    /\ UNCHANGED loopVars
    /\ run_pc = "periodic_save"
    /\ redis_bot' = IF run_iter = 0 THEN BotRecord(bot) ELSE redis_bot
    /\ bots_set' = IF run_iter = 0 THEN TRUE ELSE bots_set
    /\ run_pc' = "top"
    /\ UNCHANGED <<marketVars, redis_game, redis_tx, bot, ops, run_iter,
                   run_decision, run_game, toggleVars, lastVars>>

\* toggleBot: Bot.load_from_redis; a missing bot makes it return False
ToggleLoad ==
    /\ UNCHANGED extraVars
    /\ UNCHANGED loopVars
    /\ tog_pc = "idle"
    /\ toggles < MaxToggles
    /\ toggles' = toggles + 1
    /\ last_op' = "toggleBot"
    /\ last_args' = [actor |-> BotId, amount |-> 0, price |-> 0]
    /\ IF redis_bot.exists
       THEN /\ tog_bot' = LoadBot(redis_bot)
            /\ tog_pc' = "save"
            /\ UNCHANGED last_result
       ELSE /\ last_result' = FALSE
            /\ UNCHANGED <<tog_pc, tog_bot>>
    /\ UNCHANGED <<marketVars, tradeVars, runVars, tog_players, toggled_off>>

\* toggleBot: bot.is_toggled = not bot.is_toggled; bot.save_to_redis(game_id)
ToggleSave ==
    /\ UNCHANGED notSetVars
    /\ UNCHANGED loopVars
    /\ tog_pc = "save"
    /\ redis_bot' = BotRecord([tog_bot EXCEPT !.is_toggled = ~@])
    /\ bots_set' = TRUE
    /\ toggled_off' = tog_bot.is_toggled
    /\ tog_pc' = "load_players"
    /\ UNCHANGED <<marketVars, redis_game, redis_tx, bot, ops, runVars, tog_bot,
                   tog_players, toggles, lastVars>>

\* toggleBot: read the players list of the game
ToggleLoadPlayers ==
    /\ UNCHANGED extraVars
    /\ UNCHANGED loopVars
    /\ tog_pc = "load_players"
    /\ tog_players' = redis_game.players
    /\ tog_pc' = "save_players"
    /\ UNCHANGED <<marketVars, tradeVars, runVars, tog_bot, toggles,
                   toggled_off, lastVars>>

\* toggleBot: write the players list back and return True
ToggleSavePlayers ==
    /\ UNCHANGED extraVars
    /\ UNCHANGED loopVars
    /\ tog_pc = "save_players"
    /\ redis_game' = [redis_game EXCEPT !.players = tog_players]
    /\ tog_pc' = "idle"
    /\ last_op' = "toggleBot"
    /\ last_args' = [actor |-> BotId, amount |-> 0, price |-> 0]
    /\ last_result' = TRUE
    /\ UNCHANGED <<marketVars, redis_tx, bot, redis_bot, ops, runVars, tog_bot,
                   tog_players, toggles, toggled_off>>

BotRunNext ==
    \/ RunCheckExists
    \/ RunReadToggle
    \/ RunAnalyze
    \/ RunLoadGame
    \/ RunTrade
    \/ RunSaveBot
    \/ RunSaveGame
    \/ RunPeriodicSave
    \/ ToggleLoad
    \/ ToggleSave
    \/ ToggleLoadPlayers
    \/ ToggleSavePlayers

SpecBotRun == TradeInit /\ [][BotRunNext]_vars

\* ------------------------------------------------------------------------
\* The tick loop (run_market_updates) of a started session, against a store
\* that can go down and come back, and a stop-market request.  The loop's
\* Market object is the variable market.
\* ------------------------------------------------------------------------

\* the state start_market_updates leaves: the market stored, the task created
LoopInit ==
    /\ \E et \in EventTicks(2) :
          market = NewMarket(Dollar, et, 40000 * Dollar, 20000)
    /\ redis_market = market
    /\ shocks = 0
    /\ fired_at = 0
    /\ updates = 0
    /\ redis_game = StartGame
    /\ redis_tx = <<>>
    /\ bot = StartBot
    /\ redis_bot = BotRecord(StartBot)
    /\ ops = 0
    /\ run_pc = "top"
    /\ run_iter = 0
    /\ run_decision = Hold
    /\ run_game = StartGame
    /\ tog_pc = "idle"
    /\ tog_bot = StartBot
    /\ tog_players = StartGame.players
    /\ toggles = 0
    /\ toggled_off = FALSE
    /\ store_up = TRUE
    /\ now = 0
    /\ loop_pc = "while"
    /\ \E d \in LoopDurations, i \in UpdateIntervals :
          loop_cfg = [end_time |-> d * Second, update_interval |-> i]
    /\ update_count = 0
    /\ cancel = "none"
    /\ orphan = FALSE
    /\ task_active = TRUE
    /\ is_ended = FALSE
    /\ ExtraIdle
    /\ last_op = "start_market_updates"
    /\ last_args = NoArgs
    /\ last_result = TRUE

notLoopVars == <<tradeVars, runVars, toggleVars, lastVars>>

\* the store goes down or comes back
StoreFlip ==
    /\ UNCHANGED extraVars
    /\ loop_pc # "done"
    /\ store_up' = ~store_up
    /\ UNCHANGED <<marketVars, notLoopVars, now, loop_pc, loop_cfg, update_count,
                   cancel, orphan, task_active, is_ended>>

\* while time.time() < end_time
LoopWhile ==
    /\ UNCHANGED extraVars
    /\ loop_pc = "while"
    /\ loop_pc' = IF now < loop_cfg.end_time THEN "load" ELSE "mark_ended"
    /\ UNCHANGED <<marketVars, notLoopVars, store_up, now, loop_cfg, update_count,
                   cancel, orphan, task_active, is_ended>>

\* Market.load_from_redis: None when the market is not stored, and None as
\* well when the store raises (the except clause returns None)
load_from_redis(stored, up) == [found |-> up, market |-> stored]

\* market = await asyncio.to_thread(Market.load_from_redis, game_id);
\* if market is None: break
LoopLoad ==
    /\ UNCHANGED extraVars
    /\ loop_pc = "load"
    /\ cancel # "requested"
    /\ IF ~load_from_redis(redis_market, store_up).found
       THEN /\ loop_pc' = "mark_ended"
            /\ UNCHANGED market
       ELSE /\ market' = load_from_redis(redis_market, store_up).market
            /\ loop_pc' = "update"
    /\ UNCHANGED <<redis_market, shocks, fired_at, updates, notLoopVars, store_up, now,
                   loop_cfg, update_count, cancel, orphan, task_active, is_ended>>

\* Market.save_to_redis: a store error is logged and swallowed
save_to_redis(m, stored, up) == IF up THEN m ELSE stored

\* await asyncio.to_thread(market.updateMarket); update_count += 1
LoopUpdate ==
    /\ UNCHANGED extraVars
    /\ loop_pc = "update"
    /\ cancel # "requested"
    /\ \E draw \in TradeDraws, shock \in ShockDraws :
          market' = updateMarket(market, draw, shock.is_positive, shock.factor)
    /\ redis_market' = save_to_redis(market', redis_market, store_up)
    /\ shocks' = IF EventFires(market) THEN shocks + 1 ELSE shocks
    /\ fired_at' = IF EventFires(market) THEN market.current_tick + 1 ELSE fired_at
    /\ updates' = updates + 1
    /\ update_count' = update_count + 1
    /\ loop_pc' = "sleep"
    /\ last_op' = "updateMarket"
    /\ UNCHANGED <<tradeVars, runVars, toggleVars, last_args, last_result,
                   store_up, now, loop_cfg, cancel, orphan, task_active, is_ended>>

\* await asyncio.sleep(max(0, update_interval - update_elapsed))
LoopSleep ==
    /\ UNCHANGED extraVars
    /\ loop_pc = "sleep"
    /\ cancel # "requested"
    /\ \E update_elapsed \in UpdateTimes :
          now' = now + Max(loop_cfg.update_interval, update_elapsed)
    /\ loop_pc' = "while"
    /\ UNCHANGED <<marketVars, notLoopVars, store_up, loop_cfg, update_count,
                   cancel, orphan, task_active, is_ended>>

\* after the loop: mark the game as ended in the store (errors are logged)
LoopMarkEnded ==
    /\ UNCHANGED extraVars
    /\ loop_pc = "mark_ended"
    /\ cancel # "requested"
    /\ is_ended' = IF store_up THEN TRUE ELSE is_ended
    /\ loop_pc' = "finally"
    /\ UNCHANGED <<marketVars, notLoopVars, store_up, now, loop_cfg, update_count,
                   cancel, orphan, task_active>>

\* finally: del active_game_tasks[game_id]
LoopFinally ==
    /\ UNCHANGED extraVars
    /\ loop_pc = "finally"
    /\ task_active' = FALSE
    /\ loop_pc' = "done"
    /\ UNCHANGED <<marketVars, notLoopVars, store_up, now, loop_cfg, update_count,
                   cancel, orphan, is_ended>>

\* stop_market_updates: task.cancel()
StopCancel ==
    /\ UNCHANGED extraVars
    /\ cancel = "none"
    /\ task_active
    /\ cancel' = "requested"
    /\ UNCHANGED <<marketVars, notLoopVars, store_up, now, loop_pc, loop_cfg,
                   update_count, orphan, task_active, is_ended>>

\* the task gets CancelledError at the await it is suspended in; a thread
\* already started by to_thread runs on without it
LoopCancelled ==
    /\ UNCHANGED extraVars
    /\ cancel = "requested"
    /\ loop_pc \in {"while", "load", "update", "sleep", "mark_ended"}
    /\ orphan' = (loop_pc = "update")
    /\ loop_pc' = "finally"
    /\ cancel' = "delivered"
    /\ UNCHANGED <<marketVars, notLoopVars, store_up, now, loop_cfg, update_count,
                   task_active, is_ended>>

\* the thread of a cancelled to_thread(market.updateMarket) finishes
OrphanUpdate ==
    /\ UNCHANGED extraVars
    /\ orphan
    /\ orphan' = FALSE
    /\ \E draw \in TradeDraws, shock \in ShockDraws :
          market' = updateMarket(market, draw, shock.is_positive, shock.factor)
    /\ redis_market' = save_to_redis(market', redis_market, store_up)
    /\ shocks' = IF EventFires(market) THEN shocks + 1 ELSE shocks
    /\ fired_at' = IF EventFires(market) THEN market.current_tick + 1 ELSE fired_at
    /\ updates' = updates + 1
    /\ last_op' = "updateMarket"
    /\ UNCHANGED <<tradeVars, runVars, toggleVars, last_args, last_result,
                   store_up, now, loop_pc, loop_cfg, update_count, cancel,
                   task_active, is_ended>>

\* stop_market_updates: await task returns, the request answers success
StopReturn ==
    /\ UNCHANGED extraVars
    /\ cancel = "delivered"
    /\ loop_pc = "done"
    /\ cancel' = "returned"
    /\ last_op' = "stop_market_updates"
    /\ last_result' = TRUE
    /\ UNCHANGED <<marketVars, tradeVars, runVars, toggleVars, last_args,
                   store_up, now, loop_pc, loop_cfg, update_count, orphan,
                   task_active, is_ended>>

LoopNext ==
    \/ StoreFlip
    \/ LoopWhile
    \/ LoopLoad
    \/ LoopUpdate
    \/ LoopSleep
    \/ LoopMarkEnded
    \/ LoopFinally
    \/ StopCancel
    \/ LoopCancelled
    \/ OrphanUpdate
    \/ StopReturn

SpecLoop == LoopInit /\ [][LoopNext]_vars

\* ------------------------------------------------------------------------
\* A running session with users trading: the tick loop, whose load and
\* updateMarket run in worker threads, next to buy-coins and sell-coins
\* requests, each of which loads the market and the players, then saves
\* them.  The store is up and nobody stops the session.
\* ------------------------------------------------------------------------

\* buy_coins / sell_coins: Market.load_from_redis and r.hgetall(game:{id})
ReqLoad(action, user_id, amount) ==
    /\ UNCHANGED <<taskVars, pre_buy, customVars, recVars, reloadVars, botsVars, moreVars>>
    /\ req_pc = "idle"
    /\ ops < MaxOps
    /\ req' = [action |-> action, userId |-> user_id, amount |-> amount,
               market |-> load_from_redis(redis_market, store_up).market,
               players |-> redis_game.players]
    /\ req_pc' = "loaded"
    /\ UNCHANGED <<marketVars, tradeVars, runVars, toggleVars, loopVars, lastVars>>

\* buy_coins / sell_coins: the funds check and, when it passes,
\* market.save_to_redis(), r.hset(players) and add_transaction
ReqSave ==
    /\ UNCHANGED <<taskVars, pre_buy, customVars, recVars, reloadVars, botsVars, moreVars>>
    /\ req_pc = "loaded"
    /\ LET r == IF req.action = "buy"
                THEN buy_coins(req.market, req.players, redis_tx, req.userId, req.amount)
                ELSE sell_coins(req.market, req.players, redis_tx, req.userId, req.amount)
       IN  /\ redis_market' = IF r.ok THEN save_to_redis(r.market, redis_market, store_up)
                                      ELSE redis_market
           /\ redis_game' = [redis_game EXCEPT !.players = r.players]
           /\ redis_tx' = r.tx
           /\ last_result' = r.ok
    /\ ops' = ops + 1
    /\ last_op' = IF req.action = "buy" THEN "buy_coins" ELSE "sell_coins"
    /\ last_args' = [actor |-> req.userId, amount |-> req.amount,
                     price |-> req.market.current_price]
    /\ req_pc' = "idle"
    /\ req' = NoRequest
    /\ UNCHANGED <<market, shocks, fired_at, updates, bot, redis_bot, runVars, toggleVars,
                   loopVars>>

SessionNext ==
    \/ LoopWhile
    \/ LoopLoad
    \/ LoopUpdate
    \/ LoopSleep
    \/ LoopMarkEnded
    \/ LoopFinally
    \/ \E action \in {"buy", "sell"}, user_id \in Users, amount \in TradeAmounts :
          ReqLoad(action, user_id, amount)
    \/ ReqSave

\* a session of 2 seconds updated every second has just been started
SessionInit ==
    /\ LoopInit
    /\ loop_cfg = [end_time |-> 2 * Second, update_interval |-> Second]

SpecSession == SessionInit /\ [][SessionNext]_vars

\* ------------------------------------------------------------------------
\* Starting and stopping sessions of one game: the start-market and
\* stop-market requests and the run_market_updates tasks they create and
\* cancel.  A task's iteration (load, updateMarket, sleep) is one step here.
\* ------------------------------------------------------------------------
TasksInit ==
    /\ market = NewMarket(Dollar, 0, 0, 0)
    /\ redis_market = market
    /\ shocks = 0
    /\ fired_at = 0
    /\ updates = 0
    /\ redis_game = StartGame
    /\ redis_tx = <<>>
    /\ bot = StartBot
    /\ redis_bot = BotRecord(StartBot)
    /\ ops = 0
    /\ run_pc = "top"
    /\ run_iter = 0
    /\ run_decision = Hold
    /\ run_game = StartGame
    /\ tog_pc = "idle"
    /\ tog_bot = StartBot
    /\ tog_players = StartGame.players
    /\ toggles = 0
    /\ toggled_off = FALSE
    /\ LoopIdle
    /\ ReqIdle
    /\ market_stored = FALSE
    /\ NoTasks
    /\ pre_buy = NoSnapshot
    /\ CustomIdle
    /\ RecIdle
    /\ ReloadIdle
    /\ BotsIdle
    /\ MoreIdle
    /\ last_op = ""
    /\ last_args = NoArgs
    /\ last_result = TRUE

NeverActive(entry, task_list) == FALSE
\* game_id in active_game_tasks and not active_game_tasks[game_id].done()
TaskIsActive(entry, task_list) == entry # 0 /\ task_list[entry].pc # "done"

\* the tasks that have not finished
LiveTasks == {i \in DOMAIN tasks : tasks[i].pc # "done"}

\* POST /api/game/start-market
StartMarket(reserves, initial_price, event_tick) ==
    /\ UNCHANGED <<pre_buy, customVars, recVars, reloadVars, botsVars, moreVars>>
    /\ Len(tasks) < MaxStarts
    /\ IF TaskIsActive(active_task, tasks)
       THEN /\ last_result' = FALSE
            /\ UNCHANGED <<marketVars, taskVars>>
       ELSE /\ IF market_stored
               THEN UNCHANGED <<market, redis_market>>
               ELSE /\ market' = NewMarket(initial_price, event_tick,
                                           reserves[1], reserves[2])
                    /\ redis_market' = market'
            /\ market_stored' = TRUE
            /\ tasks' = Append(tasks, [pc |-> "created", cancel |-> FALSE])
            /\ active_task' = Len(tasks) + 1
            /\ last_result' = TRUE
            /\ UNCHANGED <<shocks, fired_at, updates, stop_wait>>
    /\ last_op' = "start_market_updates"
    /\ UNCHANGED <<tradeVars, runVars, toggleVars, loopVars, reqVars, last_args>>

\* a task is scheduled for the first time: a task cancelled before that
\* ends without entering the body of run_market_updates
TaskFirstRun(i) ==
    /\ UNCHANGED <<pre_buy, customVars, recVars, reloadVars, botsVars, moreVars>>
    /\ tasks[i].pc = "created"
    /\ tasks' = [tasks EXCEPT ![i].pc = IF tasks[i].cancel THEN "done" ELSE "running"]
    /\ UNCHANGED <<marketVars, tradeVars, runVars, toggleVars, loopVars, reqVars,
                   market_stored, active_task, stop_wait, lastVars>>

\* one iteration of the while loop
TaskTick(i) ==
    /\ UNCHANGED <<pre_buy, customVars, recVars, reloadVars, botsVars, moreVars>>
    /\ tasks[i].pc = "running"
    /\ ~tasks[i].cancel
    /\ updates < MaxTradeTicks
    /\ \E draw \in TradeDraws, shock \in ShockDraws :
          market' = updateMarket(redis_market, draw, shock.is_positive, shock.factor)
    /\ redis_market' = market'
    /\ shocks' = IF EventFires(redis_market) THEN shocks + 1 ELSE shocks
    /\ fired_at' = IF EventFires(redis_market) THEN redis_market.current_tick + 1 ELSE fired_at
    /\ updates' = updates + 1
    /\ last_op' = "updateMarket"
    /\ UNCHANGED <<tradeVars, runVars, toggleVars, loopVars, reqVars, taskVars,
                   last_args, last_result>>

\* time.time() >= end_time: the while loop ends
TaskTimeUp(i) ==
    /\ UNCHANGED <<pre_buy, customVars, recVars, reloadVars, botsVars, moreVars>>
    /\ tasks[i].pc = "running"
    /\ ~tasks[i].cancel
    /\ tasks' = [tasks EXCEPT ![i].pc = "ending"]
    /\ UNCHANGED <<marketVars, tradeVars, runVars, toggleVars, loopVars, reqVars,
                   market_stored, active_task, stop_wait, lastVars>>

\* the game is marked as ended, then finally: del active_game_tasks[game_id]
TaskEnd(i) ==
    /\ UNCHANGED <<pre_buy, customVars, recVars, reloadVars, botsVars, moreVars>>
    /\ tasks[i].pc = "ending"
    /\ ~tasks[i].cancel
    /\ is_ended' = TRUE
    /\ tasks' = [tasks EXCEPT ![i].pc = "done"]
    /\ active_task' = 0
    /\ UNCHANGED <<marketVars, tradeVars, runVars, toggleVars, reqVars,
                   store_up, now, loop_pc, loop_cfg, update_count, cancel, orphan,
                   task_active, market_stored, stop_wait, lastVars>>

\* CancelledError at the task's await, then finally
TaskCancelled(i) ==
    /\ UNCHANGED <<pre_buy, customVars, recVars, reloadVars, botsVars, moreVars>>
    /\ tasks[i].pc \in {"running", "ending"}
    /\ tasks[i].cancel
    /\ tasks' = [tasks EXCEPT ![i].pc = "done"]
    /\ active_task' = 0
    /\ UNCHANGED <<marketVars, tradeVars, runVars, toggleVars, loopVars, reqVars,
                   market_stored, stop_wait, lastVars>>

\* POST /api/game/stop-market/{game_id}: task.cancel(), then await task
StopMarket ==
    /\ UNCHANGED <<pre_buy, customVars, recVars, reloadVars, botsVars, moreVars>>
    /\ stop_wait = 0
    /\ IF active_task = 0
       THEN /\ last_result' = FALSE
            /\ last_op' = "stop_market_updates"
            /\ UNCHANGED taskVars
       ELSE /\ tasks' = [tasks EXCEPT ![active_task].cancel =
                            (tasks[active_task].pc # "done")]
            /\ stop_wait' = active_task
            /\ UNCHANGED <<market_stored, active_task, last_op, last_result>>
    /\ UNCHANGED <<marketVars, tradeVars, runVars, toggleVars, loopVars, reqVars,
                   last_args>>

\* stop_market_updates: the awaited task is done, the request answers success
StopMarketReturn ==
    /\ UNCHANGED <<pre_buy, customVars, recVars, reloadVars, botsVars, moreVars>>
    /\ stop_wait # 0
    /\ tasks[stop_wait].pc = "done"
    /\ stop_wait' = 0
    /\ last_op' = "stop_market_updates"
    /\ last_result' = TRUE
    /\ UNCHANGED <<marketVars, tradeVars, runVars, toggleVars, loopVars, reqVars,
                   market_stored, tasks, active_task, last_args>>

TasksNext ==
    \/ \E r \in StartReserves, p \in InitialPrices, d \in Durations :
          \E et \in EventTicks(d) : StartMarket(r, p, et)
    \/ \E i \in DOMAIN tasks : TaskFirstRun(i)
    \/ \E i \in DOMAIN tasks : TaskTick(i)
    \/ \E i \in DOMAIN tasks : TaskTimeUp(i)
    \/ \E i \in DOMAIN tasks : TaskEnd(i)
    \/ \E i \in DOMAIN tasks : TaskCancelled(i)
    \/ StopMarket
    \/ StopMarketReturn

SpecTasks == TasksInit /\ [][TasksNext]_vars

\* ------------------------------------------------------------------------
\* Custom strategies: generate_custom_bot_strategy is called once on some
\* environment and reply, a custom bot is created with the code it returned
\* (or runs with the code found in the store), and Bot.analyze is called tick
\* after tick on whatever the strategy does in that call.
\* ------------------------------------------------------------------------
CustomInit ==
    /\ market = NewMarket(Dollar, 0, 0, 0)
    /\ redis_market = market
    /\ shocks = 0
    /\ fired_at = 0
    /\ updates = 0
    /\ redis_game = StartGame
    /\ redis_tx = <<>>
    /\ bot = StartBot
    /\ redis_bot = BotRecord(StartBot)
    /\ ops = 0
    /\ run_pc = "top"
    /\ run_iter = 0
    /\ run_decision = Hold
    /\ run_game = StartGame
    /\ tog_pc = "idle"
    /\ tog_bot = StartBot
    /\ tog_players = StartGame.players
    /\ toggles = 0
    /\ toggled_off = FALSE
    /\ LoopIdle
    /\ ReqIdle
    /\ market_stored = FALSE
    /\ NoTasks
    /\ pre_buy = NoSnapshot
    /\ RecIdle
    /\ ReloadIdle
    /\ BotsIdle
    /\ MoreIdle
    /\ gen_input \in [api_key : BOOLEAN, reply_ok : BOOLEAN, code : GeneratedCodes]
    /\ gen_result = NoGenResult
    /\ custom_strategy_code \in GeneratedCodes \cup {NoCode}
    /\ analyzed = NoAnalysis
    /\ custom_decision = NoDecision
    /\ last_op = ""
    /\ last_args = NoArgs
    /\ last_result = TRUE

notCustomVars ==
    <<marketVars, tradeVars, runVars, toggleVars, loopVars, reqVars, taskVars,
      pre_buy, recVars, reloadVars, botsVars, moreVars, last_args, last_result>>

\* a call of generate_custom_bot_strategy(user_prompt)
GenerateStrategy ==
    /\ gen_result.status = "none"
    /\ \E test_result \in Outcomes :
          gen_result' = generate_custom_bot_strategy(gen_input, test_result)
    /\ last_op' = "generate_custom_bot_strategy"
    /\ UNCHANGED <<notCustomVars, gen_input, custom_strategy_code, analyzed,
                   custom_decision>>

\* buy_bot: Bot(..., bot_type='custom', custom_strategy_code=code)
CreateCustomBot ==
    /\ gen_result.status = "returned"
    /\ custom_strategy_code # gen_result.code
    /\ custom_strategy_code' = gen_result.code
    /\ last_op' = "buy_bot"
    /\ UNCHANGED <<notCustomVars, gen_input, gen_result, analyzed, custom_decision>>

\* Bot.analyze(coins, current_price) of the custom bot
AnalyzeCustom ==
    /\ \E coins_empty \in BOOLEAN, outcome \in OutcomesOf(custom_strategy_code) :
          /\ custom_decision' = analyze(custom_strategy_code, coins_empty, outcome)
          /\ analyzed' = [coins_empty |-> coins_empty, outcome |-> outcome]
    /\ last_op' = "Bot.analyze"
    /\ UNCHANGED <<notCustomVars, gen_input, gen_result, custom_strategy_code>>

CustomNext ==
    \/ GenerateStrategy
    \/ CreateCustomBot
    \/ AnalyzeCustom

SpecCustom == CustomInit /\ [][CustomNext]_vars

\* ------------------------------------------------------------------------
\* Trades and their recording: the trading session of SpecTrade, with a game
\* hash that has the field gameId or not, and a store that answers the
\* trade's own reads and writes and answers or fails the add_transaction
\* call at its end.
\* ------------------------------------------------------------------------
RecordInit ==
    /\ \E et \in EventTicks(2) :
          market = NewMarket(Dollar, et, 40000 * Dollar, 20000)
    /\ redis_market = market
    /\ shocks = 0
    /\ fired_at = 0
    /\ updates = 0
    /\ redis_game = StartGame
    /\ redis_tx = <<>>
    /\ bot = StartBot
    /\ redis_bot = BotRecord(StartBot)
    /\ ops = 0
    /\ run_pc = "top"
    /\ run_iter = 0
    /\ run_decision = Hold
    /\ run_game = StartGame
    /\ tog_pc = "idle"
    /\ tog_bot = StartBot
    /\ tog_players = StartGame.players
    /\ toggles = 0
    /\ toggled_off = FALSE
    /\ LoopIdle
    /\ ReqIdle
    /\ market_stored = TRUE
    /\ NoTasks
    /\ pre_buy = NoSnapshot
    /\ CustomIdle
    /\ ReloadIdle
    /\ BotsIdle
    /\ MoreIdle
    /\ game_has_id \in BOOLEAN
    /\ recording = NoRecording
    /\ last_op = "start_market_updates"
    /\ last_args = NoArgs
    /\ last_result = TRUE

\* Bot.run, one trading iteration: load the game data, Bot.buy or Bot.sell
\* (which records the trade), and on success save the bot and the game
\* data; an exception leaving the trade skips the saves
RecordedBotTrade(action, amount, up) ==
    /\ ops < MaxOps
    /\ bot.is_toggled
    /\ LET r == IF action = "buy"
                THEN BotBuy(bot, redis_game, redis_tx, amount, BotPrice, Owner)
                ELSE BotSell(bot, redis_game, redis_tx, amount, BotPrice, Owner)
           rc == IF r.ok
                 THEN BotRecording(redis_tx, Head(r.tx), game_has_id, up)
                 ELSE NotRecorded(redis_tx)
           saved == r.ok /\ ~rc.raised
       IN  /\ bot' = r.self
           /\ redis_bot' = IF saved THEN BotRecord(r.self) ELSE redis_bot
           /\ redis_game' = IF saved THEN r.game_data ELSE redis_game
           /\ redis_tx' = rc.tx
           /\ recording' = [tried |-> rc.tried, returned |-> rc.returned,
                            raised |-> rc.raised]
           /\ last_result' = saved
    /\ ops' = ops + 1
    /\ last_op' = IF action = "buy" THEN "Bot.buy" ELSE "Bot.sell"
    /\ last_args' = [actor |-> BotId, amount |-> amount, price |-> BotPrice]
    /\ UNCHANGED <<marketVars, runVars, toggleVars, loopVars, reqVars, taskVars,
                   pre_buy, customVars, game_has_id, reloadVars, botsVars, moreVars>>

\* POST /api/game/buy-coins and /api/game/sell-coins: the market and the
\* players are written before the trade is recorded; _update_interactions
\* gives the game hash its gameId field when it has none
RecordedUserTrade(action, user_id, amount, up) ==
    /\ ops < MaxOps
    /\ LET r == IF action = "buy"
                THEN buy_coins(redis_market, redis_game.players, redis_tx,
                               user_id, amount)
                ELSE sell_coins(redis_market, redis_game.players, redis_tx,
                                user_id, amount)
           rc == IF r.ok THEN RecordTransaction(redis_tx, Head(r.tx), up)
                 ELSE NotRecorded(redis_tx)
       IN  /\ redis_market' = r.market
           /\ market' = r.market
           /\ redis_game' = [redis_game EXCEPT !.players = r.players]
           /\ redis_tx' = rc.tx
           /\ game_has_id' = (game_has_id \/ rc.returned)
           /\ recording' = [tried |-> rc.tried, returned |-> rc.returned,
                            raised |-> rc.raised]
           /\ last_result' = (r.ok /\ ~rc.raised)
    /\ ops' = ops + 1
    /\ last_op' = IF action = "buy" THEN "buy_coins" ELSE "sell_coins"
    /\ last_args' = [actor |-> user_id, amount |-> amount,
                     price |-> redis_market.current_price]
    /\ UNCHANGED <<shocks, fired_at, updates, bot, redis_bot, runVars, toggleVars,
                   loopVars, reqVars, taskVars, pre_buy, customVars, reloadVars, botsVars, moreVars>>

RecordNext ==
    \/ \E action \in {"buy", "sell"}, amount \in TradeAmounts, up \in BOOLEAN :
          RecordedBotTrade(action, amount, up)
    \/ \E action \in {"buy", "sell"}, user_id \in Users, amount \in TradeAmounts,
          up \in BOOLEAN : RecordedUserTrade(action, user_id, amount, up)

SpecRecord == RecordInit /\ [][RecordNext]_vars

\* ------------------------------------------------------------------------
\* Saving and reloading the market: every tick of run_market_updates and
\* every user trade loads the Market object from its two hashes, changes it
\* and saves it again.
\* ------------------------------------------------------------------------
ReloadInit ==
    /\ \E d \in Durations, r \in StartReserves, p \in InitialPrices,
          title \in EventTitles :
         \E et \in EventTicks(d) :
            saved_market = FullMarket(GameId, <<>>, title, NewMarket(p, et, r[1], r[2]))
    /\ market_hashes = MarketHashes(saved_market)
    /\ reference = saved_market
    /\ market = NewMarket(Dollar, 0, 0, 0)
    /\ redis_market = market
    /\ shocks = 0
    /\ fired_at = 0
    /\ updates = 0
    /\ redis_game = StartGame
    /\ redis_tx = <<>>
    /\ bot = StartBot
    /\ redis_bot = BotRecord(StartBot)
    /\ ops = 0
    /\ run_pc = "top"
    /\ run_iter = 0
    /\ run_decision = Hold
    /\ run_game = StartGame
    /\ tog_pc = "idle"
    /\ tog_bot = StartBot
    /\ tog_players = StartGame.players
    /\ toggles = 0
    /\ toggled_off = FALSE
    /\ LoopIdle
    /\ ReqIdle
    /\ market_stored = TRUE
    /\ NoTasks
    /\ pre_buy = NoSnapshot
    /\ CustomIdle
    /\ RecIdle
    /\ BotsIdle
    /\ MoreIdle
    /\ last_op = "start_market_updates"
    /\ last_args = NoArgs
    /\ last_result = TRUE

notReloadVars ==
    <<market, redis_market, bot, redis_bot, runVars, toggleVars, loopVars,
      reqVars, taskVars, pre_buy, customVars, recVars, botsVars, moreVars>>

\* run_market_updates, one iteration: Market.load_from_redis and updateMarket
\* on the loaded object, which saves it; reference is the same tick applied
\* to the object that was saved
ReloadTick ==
    /\ updates < MaxReloads
    /\ LET loaded == LoadMarket(GameId, market_hashes)
       IN  /\ loaded.found
           /\ \E draw \in TradeDraws, shock \in ShockDraws :
                /\ saved_market' = updateFull(loaded.market, draw,
                                              shock.is_positive, shock.factor)
                /\ reference' = updateFull(saved_market, draw,
                                           shock.is_positive, shock.factor)
           /\ shocks' = IF EventFires(Core(loaded.market)) THEN shocks + 1 ELSE shocks
           /\ fired_at' = IF EventFires(Core(loaded.market))
                          THEN loaded.market.current_tick + 1 ELSE fired_at
    /\ market_hashes' = MarketHashes(saved_market')
    /\ updates' = updates + 1
    /\ last_op' = "updateMarket"
    /\ UNCHANGED <<notReloadVars, redis_game, redis_tx, ops, last_args, last_result>>

\* POST /api/game/buy-coins and /api/game/sell-coins: load the market, move
\* the reserves (the MarketData keeps its own), save it
ReloadUserTrade(action, user_id, amount) ==
    /\ ops < MaxReloadTrades
    /\ LET loaded == LoadMarket(GameId, market_hashes)
           m == Core(loaded.market)
           r == IF action = "buy"
                THEN buy_coins(m, redis_game.players, redis_tx, user_id, amount)
                ELSE sell_coins(m, redis_game.players, redis_tx, user_id, amount)
       IN  /\ loaded.found
           /\ saved_market' = [loaded.market EXCEPT
                                 !.dollar_supply = r.market.dollar_supply,
                                 !.bc_supply = r.market.bc_supply]
           /\ market_hashes' = IF r.ok THEN MarketHashes(saved_market')
                               ELSE market_hashes
           /\ redis_game' = [redis_game EXCEPT !.players = r.players]
           /\ redis_tx' = r.tx
           /\ last_result' = r.ok
           /\ last_args' = [actor |-> user_id, amount |-> amount,
                            price |-> m.current_price]
    /\ ops' = ops + 1
    /\ last_op' = IF action = "buy" THEN "buy_coins" ELSE "sell_coins"
    /\ UNCHANGED <<notReloadVars, shocks, fired_at, updates, reference>>

\* Market.addUser on the loaded market
ReloadAddUser(user_id) ==
    /\ LET loaded == LoadMarket(GameId, market_hashes)
       IN  /\ loaded.found
           /\ \A k \in DOMAIN loaded.market.users : loaded.market.users[k] # user_id
           /\ saved_market' = [loaded.market EXCEPT !.users = Append(@, user_id)]
    /\ market_hashes' = MarketHashes(saved_market')
    /\ last_op' = "addUser"
    /\ UNCHANGED <<notReloadVars, shocks, fired_at, updates, reference, redis_game,
                   redis_tx, ops, last_args, last_result>>

ReloadNext ==
    \/ ReloadTick
    \/ \E action \in {"buy", "sell"}, user_id \in Users, amount \in ReloadAmounts :
          ReloadUserTrade(action, user_id, amount)
    \/ \E user_id \in Users : ReloadAddUser(user_id)

SpecReload == ReloadInit /\ [][ReloadNext]_vars

\* ------------------------------------------------------------------------
\* Claims about the market engine (checked under SpecMarket)
\* ------------------------------------------------------------------------

\* C1: over a session's updateMarket calls the supply shock is applied
\* exactly once: on the first tick with current_tick >= event_tick, and never
\* again, also after event_triggered has been reset.
C1_ShockExactlyOnce ==
    shocks = IF market.current_tick >= 1 /\ market.current_tick >= market.event_tick
             THEN 1 ELSE 0

\* C2: after every updateMarket call, whatever the starting reserves, the
\* simulated trades and the shock, both reserves are at least the floor of
\* 10000.
C2_ReservesAtLeastFloor ==
    last_op = "updateMarket" =>
        /\ market.dollar_supply >= MIN_DOLLAR_SUPPLY * Dollar
        /\ market.bc_supply >= MIN_BC_SUPPLY

\* C2 witness: a tick after the shock has fired, in which the simulated
\* trades left the coin reserve above the floor and moved the price.
C2_Witness ==
    /\ last_op = "updateMarket"
    /\ shocks >= 1
    /\ market.current_tick >= 2
    /\ market.bc_supply > MIN_BC_SUPPLY
    /\ market.price_history[1] # market.current_price

\* C3: after k updateMarket calls current_tick = k and price_history has
\* k + 1 entries; each call appends exactly one price and leaves every earlier
\* entry in place.
C3_AppendOnly ==
    [][ /\ market'.current_tick = updates'
        /\ Len(market'.price_history) = updates' + 1
        /\ SubSeq(market'.price_history, 1, Len(market.price_history))
              = market.price_history ]_vars

\* C3 witness: three ticks applied to a market created with one seed price.
C3_Witness ==
    /\ updates = 3
    /\ market.current_tick = 3
    /\ Len(market.price_history) = 4

\* ------------------------------------------------------------------------
\* Claims about trades (checked under SpecTrade)
\* ------------------------------------------------------------------------
\* the step is a bot trade or a trade request
IsTradeStep == ops' = ops + 1
\* the amount and price of the trade the step executed, as recorded
Executed == Head(redis_tx')

\* C4: a Bot.buy whose cost amount * price exceeds the bot's usd, or a
\* Bot.sell whose amount exceeds the bot's bc, returns False and leaves the
\* bot's usd and bc, the pool totals, the owner's wallet entry and the
\* transaction history unchanged.
C4_FailedBotTradeChangesNothing ==
    [][ ( /\ IsTradeStep
          /\ \/ /\ last_op' = "Bot.buy"
                /\ last_args'.amount * last_args'.price > bot.usd
             \/ /\ last_op' = "Bot.sell"
                /\ last_args'.amount > bot.bc )
        => /\ last_result' = FALSE
           /\ UNCHANGED <<bot, redis_bot, redis_game, redis_tx>> ]_vars

\* C4 witness: the bot, holding some usd, was asked to buy for more than it
\* holds and refused.
C4_Witness ==
    /\ last_op = "Bot.buy"
    /\ last_result = FALSE
    /\ bot.usd > 0
    /\ last_args.amount * last_args.price > bot.usd

\* C5: a successful Bot.buy(a, p) leaves usd = usd_before - a*p and
\* bc = bc_before + a and changes the pool totals by totalUsd + a*p and
\* totalBc - a; a successful Bot.sell(a, p) is the exact inverse.
C5_BotTradeDeltas ==
    [][ (IsTradeStep /\ last_result' /\ last_op' \in {"Bot.buy", "Bot.sell"})
        => LET a == last_args'.amount
               p == last_args'.price
               sign == IF last_op' = "Bot.buy" THEN 1 ELSE -1
           IN  /\ bot'.usd = bot.usd - sign * a * p
               /\ bot'.bc = bot.bc + sign * a
               /\ redis_game'.totalUsd = redis_game.totalUsd + sign * a * p
               /\ redis_game'.totalBc = redis_game.totalBc - sign * a ]_vars

\* C5 witness: the bot has bought and then sold.
C5_Witness ==
    /\ last_op = "Bot.sell"
    /\ last_result
    /\ Len(redis_tx) >= 2
    /\ redis_tx[2].type = "buy" /\ redis_tx[2].is_bot

C8_TradesMoveReserves ==
    [][ (IsTradeStep /\ last_result')
        => LET a == Executed.amount
               p == Executed.price
               sign == IF Executed.type = "buy" THEN 1 ELSE -1
           IN  /\ redis_market'.bc_supply = redis_market.bc_supply - sign * a
               /\ redis_market'.dollar_supply
                     = redis_market.dollar_supply + sign * a * p ]_vars

Balances ==
    <<redis_bot.usd, redis_bot.bc, redis_game.players, redis_game.totalUsd,
      redis_game.totalBc>>

\* C7: a toggled-off bot never produces a trade: from the moment toggleBot
\* has stored is_toggled = False until a toggleBot stores True again, no buy
\* or sell of the bot is applied to a wallet or to the pool.
C7_ToggledOffNeverTrades ==
    [][ (toggled_off /\ toggled_off') => Balances' = Balances ]_vars

\* ------------------------------------------------------------------------
\* Claims about the tick loop (checked under SpecLoop)
\* ------------------------------------------------------------------------
\* the loop has left its while loop
LoopEnded == loop_pc \in {"mark_ended", "finally", "done"}

\* C10: a store that is unavailable during iterations of the tick loop does
\* not stop run_market_updates: the loop ends only when the session duration
\* has elapsed or the task is cancelled.
C10_LoopEndsOnlyByTimeOrCancel ==
    LoopEnded => (now >= loop_cfg.end_time \/ cancel # "none")

\* ------------------------------------------------------------------------
\* Claims about a running session with users trading (checked under
\* SpecSession)
\* ------------------------------------------------------------------------

\* C11: ticks are strictly ordered in the stored market: whatever the
\* interleaving of the tick loop with buy-coins and sell-coins requests, the
\* stored current_tick never decreases and no stored price_history entry is
\* removed or replaced.
C11_StoredTicksOrdered ==
    [][ /\ redis_market'.current_tick >= redis_market.current_tick
        /\ Len(redis_market'.price_history) >= Len(redis_market.price_history)
        /\ SubSeq(redis_market'.price_history, 1, Len(redis_market.price_history))
              = redis_market.price_history ]_vars

\* ------------------------------------------------------------------------
\* Claims about stopping and starting the tick loop
\* ------------------------------------------------------------------------

\* C12: cancellation is clean: once stop_market_updates has returned success,
\* the tick loop applies no further tick to the stored market; a tick in
\* flight at cancellation is stored before the stop returns or not at all.
C12_NoTickAfterStopReturned ==
    [][ cancel = "returned" => redis_market' = redis_market ]_vars

C14_AtMostDurationTicks ==
    update_count * Second <= loop_cfg.end_time

\* ------------------------------------------------------------------------
\* More claims about the market engine (checked under SpecMarket)
\* ------------------------------------------------------------------------

\* C15: if the shock fires at tick T, event_triggered stays true through tick
\* T + 9 and is reset exactly at tick T + 10, for every event_tick, 0
\* included.
C15_FlagResetsTenTicksAfterFiring ==
    fired_at > 0 =>
        (market.event_triggered <=> market.current_tick < fired_at + EVENT_RESET_TICKS)

\* C16: both reserves of the stored market are at least the floor of 10000
\* at all times, in every stored state reached through start-market,
\* updateMarket, buy-coins and sell-coins, not only right after a tick.
C16_StoredReservesAtLeastFloor ==
    market_stored =>
        /\ redis_market.dollar_supply >= MinDollarSupply
        /\ redis_market.bc_supply >= MinBcSupply

\* ------------------------------------------------------------------------
\* More claims about trades (checked under SpecTrade)
\* ------------------------------------------------------------------------

\* C17: a successful Bot.buy(a, p) of a bot with an owner changes the
\* owner's player entry by exactly -a*p usd and +a coins, a successful
\* Bot.sell(a, p) by exactly +a*p usd and -a coins, whatever the owner's
\* balances, and changes no other player's entry.
C17_OwnerWalletDeltas ==
    [][ (IsTradeStep /\ last_result' /\ last_op' \in {"Bot.buy", "Bot.sell"})
        => LET a == last_args'.amount
               p == last_args'.price
               sign == IF last_op' = "Bot.buy" THEN 1 ELSE -1
           IN  /\ redis_game'.players[Owner].usd
                     = redis_game.players[Owner].usd - sign * a * p
               /\ redis_game'.players[Owner].coins
                     = redis_game.players[Owner].coins + sign * a
               /\ \A u \in Users \ {Owner} :
                     redis_game'.players[u] = redis_game.players[u] ]_vars

\* C18: round trip: for a bot that can afford it, Bot.buy(a, p) immediately
\* followed by Bot.sell(a, p) at the same price returns the bot's usd and bc
\* and the pool totals totalUsd and totalBc to their values before the buy.
C18_BuySellRoundTrip ==
    [][ ( /\ IsTradeStep /\ last_op' = "Bot.sell"
          /\ last_op = "Bot.buy" /\ last_result
          /\ last_args' = last_args )
        => /\ last_result'
           /\ Snapshot(bot', redis_game') = pre_buy ]_vars

\* C18 witness: the bot bought and at once sold the same amount at the same
\* price.
C18_Witness ==
    /\ last_op = "Bot.sell"
    /\ last_result
    /\ Len(redis_tx) >= 2
    /\ redis_tx[2].type = "buy" /\ redis_tx[2].is_bot
    /\ redis_tx[2].amount = redis_tx[1].amount
    /\ redis_tx[2].price = redis_tx[1].price
    /\ pre_buy = Snapshot(bot, redis_game)
    /\ pre_buy.usd > 0

\* ------------------------------------------------------------------------
\* Claims about custom strategies (checked under SpecCustom)
\* ------------------------------------------------------------------------
\* the last analyze call ran into one of the failures of the strategy
StrategyFailed ==
    \/ ~custom_strategy_code.present
    \/ ~custom_strategy_code.exec_ok
    \/ ~custom_strategy_code.defines
    \/ analyzed.outcome.kind # "dict"
    \/ ~analyzed.outcome.has_action
    \/ ~analyzed.outcome.has_amount
    \/ analyzed.outcome.action \notin {"buy", "sell", "hold"}
    \/ analyzed.outcome.amount.type = "other"

\* C19: for a custom bot Bot.analyze never raises: a missing, failing or
\* ill-formed strategy yields hold with amount 0 for that call, and a valid
\* result is returned with its amount clamped into [0, 1000].
C19_CustomAnalyzeSafe ==
    last_op = "Bot.analyze" =>
        /\ custom_decision.status = "returned"
        /\ custom_decision.action \in {"buy", "sell", "hold"}
        /\ custom_decision.amount.type = "num"
        /\ custom_decision.amount.v >= 0
        /\ custom_decision.amount.v <= MAX_CUSTOM_AMOUNT
        /\ StrategyFailed => custom_decision = HoldDecision
        /\ (~StrategyFailed /\ ~analyzed.coins_empty)
             => custom_decision.action = analyzed.outcome.action

\* C20: generate_custom_bot_strategy never propagates a failure: on every
\* failure to obtain or to validate the code it returns the safe default
\* strategy, so the code it returns always defines custom_strategy.
C20_GeneratorNeverFails ==
    gen_result.status # "none" =>
        /\ gen_result.status = "returned"
        /\ gen_result.code.present
        /\ gen_result.code.has_def
        /\ gen_result.code.exec_ok
        /\ gen_result.code.defines
        /\ gen_result.code # gen_input.code => gen_result.code = DefaultCode

\* ------------------------------------------------------------------------
\* Claims about the recording of trades (checked under SpecRecord)
\* ------------------------------------------------------------------------
\* the step is a trade whose add_transaction call failed on the store
RecordingFailed == ops' = ops + 1 /\ recording'.tried /\ ~recording'.returned

\* C21: recording is fire-and-forget: when add_transaction fails on the
\* store during a bot or user trade, no exception leaves it, the trade
\* succeeds, and the wallets, the pool and the reserves change exactly as
\* they do when the recording works.
C21_RecordingFailureKeepsTrade ==
    [][RecordingFailed =>
         /\ ~recording'.raised
         /\ last_result' = TRUE
         /\ LET a == last_args'
            IN  CASE last_op' = "Bot.buy" ->
                       LET r == BotBuy(bot, redis_game, redis_tx, a.amount, a.price, Owner)
                       IN  /\ r.ok
                           /\ bot' = r.self
                           /\ redis_bot' = BotRecord(r.self)
                           /\ redis_game' = r.game_data
                           /\ redis_market' = redis_market
                  [] last_op' = "Bot.sell" ->
                       LET r == BotSell(bot, redis_game, redis_tx, a.amount, a.price, Owner)
                       IN  /\ r.ok
                           /\ bot' = r.self
                           /\ redis_bot' = BotRecord(r.self)
                           /\ redis_game' = r.game_data
                           /\ redis_market' = redis_market
                  [] last_op' = "buy_coins" ->
                       LET r == buy_coins(redis_market, redis_game.players,
                                          redis_tx, a.actor, a.amount)
                       IN  /\ r.ok
                           /\ redis_market' = r.market
                           /\ redis_game' = [redis_game EXCEPT !.players = r.players]
                           /\ bot' = bot /\ redis_bot' = redis_bot
                  [] last_op' = "sell_coins" ->
                       LET r == sell_coins(redis_market, redis_game.players,
                                           redis_tx, a.actor, a.amount)
                       IN  /\ r.ok
                           /\ redis_market' = r.market
                           /\ redis_game' = [redis_game EXCEPT !.players = r.players]
                           /\ bot' = bot /\ redis_bot' = redis_bot
                  [] OTHER -> FALSE
      ]_vars
\* a trade went through although its recording failed
C21_Witness ==
    /\ recording.tried /\ ~recording.returned
    /\ last_result = TRUE
    /\ redis_tx = <<>>
    /\ \/ last_op = "Bot.buy" /\ bot.bc > 0
       \/ last_op = "buy_coins" /\ redis_market.bc_supply < 20000

\* C22: exactly one transaction record per executed trade: with a store
\* that answers, every successful Bot.buy, Bot.sell, buy-coins and sell-coins
\* adds exactly one entry to the transaction list, and a failed trade adds
\* none.
C22_OneRecordPerTrade ==
    [][(ops' = ops + 1 /\ (recording'.tried => recording'.returned)) =>
         Len(redis_tx') = Len(redis_tx) + (IF last_result' THEN 1 ELSE 0)
      ]_vars

\* ------------------------------------------------------------------------
\* Claims about saving and loading (checked under SpecReload)
\* ------------------------------------------------------------------------
\* the fields the round trip is to keep
KeptFields == {"game_id", "current_tick", "users", "dollar_supply", "bc_supply",
               "current_price", "volatility", "price_history", "event_tick",
               "event_title", "event_triggered"}
Kept(full) == [f \in KeptFields |-> full[f]]

\* C23: load_from_redis after save_to_redis finds the market and rebuilds it
\* with the saved game_id, current_tick, users, supplies, current_price,
\* volatility, price_history and shock state, and a tick applied to the
\* reloaded market gives what the same tick gives on the saved one: the
\* same prices, and the shock applied exactly as often.
C23_ReloadIsEquivalent ==
    LET loaded == LoadMarket(GameId, market_hashes)
    IN  /\ loaded.found
        /\ Kept(loaded.market) = Kept(saved_market)
        /\ last_op = "updateMarket" => saved_market = reference
        /\ shocks = IF saved_market.current_tick >= 1
                       /\ saved_market.current_tick >= saved_market.event_tick
                    THEN 1 ELSE 0
\* a market reloaded with the shock applied and its flag still set, after a
\* user trade moved the reserves, and ticked again
C23_Witness ==
    /\ last_op = "updateMarket"
    /\ shocks = 1
    /\ saved_market.event_triggered
    /\ saved_market.current_tick > saved_market.event_tick + 1
    /\ Len(redis_tx) > 0
    /\ saved_market.users # <<>>
    /\ saved_market.volatility > 0

\* ------------------------------------------------------------------------
\* Scheduling the shock: start_market_updates constructs the Market with the
\* request's duration, which also is the duration run_market_updates gets;
\* Market.__init__ draws event_tick, and the session ticks.
\* ------------------------------------------------------------------------
ScheduleInit ==
    /\ \E d \in ScheduleDurations :
         /\ \E et \in EventTicks(d) :
                market = NewMarket(Dollar, et, 100 * Dollar, 100)
         /\ loop_cfg = [end_time |-> d * Second, update_interval |-> Second]
    /\ redis_market = market
    /\ shocks = 0
    /\ fired_at = 0
    /\ updates = 0
    /\ redis_game = StartGame
    /\ redis_tx = <<>>
    /\ bot = StartBot
    /\ redis_bot = BotRecord(StartBot)
    /\ ops = 0
    /\ run_pc = "top"
    /\ run_iter = 0
    /\ run_decision = Hold
    /\ run_game = StartGame
    /\ tog_pc = "idle"
    /\ tog_bot = StartBot
    /\ tog_players = StartGame.players
    /\ toggles = 0
    /\ toggled_off = FALSE
    /\ store_up = TRUE
    /\ now = 0
    /\ loop_pc = "done"
    /\ update_count = 0
    /\ cancel = "none"
    /\ orphan = FALSE
    /\ task_active = FALSE
    /\ is_ended = FALSE
    /\ ExtraIdle
    /\ last_op = "start_market_updates"
    /\ last_args = NoArgs
    /\ last_result = TRUE

ScheduleNext == MarketTick

SpecSchedule == ScheduleInit /\ [][ScheduleNext]_vars

\* ------------------------------------------------------------------------
\* Bots: Bot objects constructed, traded with, analyzed with, saved to and
\* loaded from the store, bought with buyBot, in an interpreter process that
\* can be replaced by a new one (a restart of the server, another worker).
\* ------------------------------------------------------------------------
\* price histories handed to Bot.analyze: n prices from start in steps of step
Rising(start, step, n) == [i \in 1 .. n |-> start + step * (i - 1)]
SteepRise == Rising(100, 10, 20)
AnalyzeHistories ==
    { SteepRise, Rising(100, 1, 20), Rising(300, -10, 20), Rising(100, 0, 20),
      Rising(100, 10, 1) }
\* the owner and the custom code a bot is constructed with
BotOwners == { None, Some("u1") }
BotCodes == { None, Some("code") }
\* the capital of a bot, in cents, and the coins it is constructed with
BotCapitals == { 2 * Dollar }
BotCoins == 1
\* (usd, bc) of the bot whose decisions are looked at
AnalyzeWallets == { <<0, 0>>, <<50 * Dollar, 0>>, <<1000 * Dollar, 10>>,
                    <<2 * Dollar, 300>> }

BotsInitOthers ==
    /\ market = NewMarket(Dollar, 0, 0, 0)
    /\ redis_market = market
    /\ shocks = 0
    /\ fired_at = 0
    /\ updates = 0
    /\ redis_game = StartGame
    /\ redis_tx = <<>>
    /\ bot = StartBot
    /\ redis_bot = BotRecord(StartBot)
    /\ ops = 0
    /\ run_pc = "top"
    /\ run_iter = 0
    /\ run_decision = Hold
    /\ run_game = StartGame
    /\ tog_pc = "idle"
    /\ tog_bot = StartBot
    /\ tog_players = StartGame.players
    /\ toggles = 0
    /\ toggled_off = FALSE
    /\ LoopIdle
    /\ ReqIdle
    /\ market_stored = TRUE
    /\ NoTasks
    /\ pre_buy = NoSnapshot
    /\ CustomIdle
    /\ RecIdle
    /\ ReloadIdle
    /\ MoreIdle
    /\ last_op = "start_market_updates"
    /\ last_args = NoArgs
    /\ last_result = TRUE

BotsInit ==
    /\ BotsInitOthers
    /\ str_hash \in ProcessHashes
    /\ bot_obj = NoBotObject
    /\ bot_hashes = [id \in BotUuids |-> NoFullHash]
    /\ game_players = StartPlayers
    /\ bought = NoPurchase
    /\ saved_bot = [id \in BotUuids |-> NoBotObject]
    /\ first_coefficient = [id \in BotUuids |-> NoNumber]
    /\ analysis = NoAnalyze

notBotsVars ==
    <<marketVars, bot, redis_bot, runVars, toggleVars, loopVars, reqVars, taskVars,
      pre_buy, customVars, recVars, reloadVars, moreVars, last_args, last_result>>

\* the first coefficient generated for bot_id is remembered
Remember(first, bot_id, coefficient) ==
    IF first[bot_id].none THEN [first EXCEPT ![bot_id] = Number(coefficient)] ELSE first

\* Bot(bot_id=..., usd_given=..., usd=..., bc=..., bot_type=..., user_id=...,
\* custom_strategy_code=...): a momentum bot, or a custom bot with its code
BotsConstruct(bot_id, capital, user_id, code) ==
    /\ LET made == NewBot([BotDefaults EXCEPT
                             !.bot_id = Some(bot_id),
                             !.usd_given = capital,
                             !.usd = capital,
                             !.bc = BotCoins,
                             !.bot_type = Some(IF code.none THEN "momentum" ELSE "custom"),
                             !.user_id = user_id,
                             !.custom_strategy_code = code],
                          bot_id, str_hash)
       IN  /\ bot_obj' = [exists |-> TRUE, bot |-> made]
           /\ first_coefficient' =
                  Remember(first_coefficient, bot_id, made.behavior_coefficient)
    /\ last_op' = "Bot"
    /\ UNCHANGED <<notBotsVars, redis_game, redis_tx, ops, str_hash, bot_hashes,
                   game_players, bought, saved_bot, analysis>>

\* bot.save_to_redis(game_id)
BotsSave ==
    /\ bot_obj.exists
    /\ bot_hashes' = [bot_hashes EXCEPT ![bot_obj.bot.bot_id] = FullBotHash(bot_obj.bot)]
    /\ saved_bot' = [saved_bot EXCEPT ![bot_obj.bot.bot_id] = bot_obj]
    /\ last_op' = "save_to_redis"
    /\ UNCHANGED <<notBotsVars, redis_game, redis_tx, ops, str_hash, bot_obj,
                   game_players, bought, first_coefficient, analysis>>

\* bot = Bot.load_from_redis(game_id, bot_id)
BotsLoad(bot_id) ==
    /\ bot_obj' = LoadFullBot(bot_hashes, bot_id, str_hash)
    /\ last_op' = "load_from_redis"
    /\ UNCHANGED <<notBotsVars, redis_game, redis_tx, ops, str_hash,
                   bot_hashes, game_players, bought, saved_bot, first_coefficient,
                   analysis>>

\* buyBot(user_id, game_id, 'momentum', initial_usd), with its uuid4 draw
BotsBuyBot(user_id, initial_usd, uuid) ==
    /\ ~bot_hashes[uuid].exists
    /\ LET out == buyBot(game_players, bot_hashes, user_id, "momentum", initial_usd,
                         uuid, str_hash)
       IN  /\ bought' = [called |-> TRUE, user_id |-> user_id, bot_type |-> "momentum",
                         initial_usd |-> initial_usd, result |-> out.result]
           /\ game_players' = out.players
           /\ bot_hashes' = out.hashes
           /\ first_coefficient' =
                  IF out.result.none THEN first_coefficient
                  ELSE Remember(first_coefficient, uuid,
                                GeneratedCoefficient(uuid, str_hash))
    /\ last_op' = "buyBot"
    /\ UNCHANGED <<notBotsVars, redis_game, redis_tx, ops, str_hash, bot_obj,
                   saved_bot, analysis>>

\* bot.buy or bot.sell(amount, price, game_data, bot.user_id) on the object,
\* with a game_data dict of the caller that is read from the store and not
\* written back
BotsTrade(action, amount) ==
    /\ bot_obj.exists
    /\ ops < MaxBotOps
    /\ LET user_id == OrElse(bot_obj.bot.user_id, "")
           out == IF action = "buy"
                  THEN BotBuy(bot_obj.bot, redis_game, redis_tx, amount, BotPrice, user_id)
                  ELSE BotSell(bot_obj.bot, redis_game, redis_tx, amount, BotPrice, user_id)
       IN  /\ bot_obj' = [bot_obj EXCEPT !.bot = out.self]
           /\ redis_tx' = out.tx
    /\ ops' = ops + 1
    /\ last_op' = action
    /\ UNCHANGED <<notBotsVars, redis_game, str_hash, bot_hashes, game_players,
                   bought, saved_bot, first_coefficient, analysis>>

\* bot.analyze(coins) of a momentum bot; it assigns no attribute of the bot
BotsAnalyze(coins, ignore) ==
    /\ bot_obj.exists
    /\ bot_obj.bot.bot_type = "momentum"
    /\ analysis' = [called |-> TRUE, coins |-> coins, ignore |-> ignore,
                    decision |-> analyze_momentum(bot_obj.bot, coins, str_hash, ignore)]
    /\ last_op' = "analyze"
    /\ UNCHANGED <<notBotsVars, redis_game, redis_tx, ops, str_hash, bot_obj,
                   bot_hashes, game_players, bought, saved_bot,
                   first_coefficient>>

\* the interpreter process ends and another starts: the objects in memory
\* are gone, the store stays, str hashes have a new salt
BotsRestart ==
    /\ str_hash' \in ProcessHashes
    /\ bot_obj' = NoBotObject
    /\ last_op' = "restart"
    /\ UNCHANGED <<notBotsVars, redis_game, redis_tx, ops, bot_hashes, game_players,
                   bought, saved_bot, first_coefficient, analysis>>

BotsNext ==
    \/ \E capital \in BotCapitals, user_id \in BotOwners, code \in BotCodes :
          BotsConstruct("b1", capital, user_id, code)
    \/ BotsSave
    \/ \E bot_id \in BotUuids : BotsLoad(bot_id)
    \/ \E user_id \in Users, initial_usd \in BotCapitals : BotsBuyBot(user_id, initial_usd, "b2")
    \/ \E action \in {"buy", "sell"} : BotsTrade(action, 1)
    \/ BotsAnalyze(SteepRise, FALSE)
    \/ BotsRestart

SpecBots == BotsInit /\ [][BotsNext]_vars

\* ------------------------------------------------------------------------
\* Decisions of a momentum bot: a bot with default parameters, with the
\* coefficient 1.0 or a generated one, and some wallet, asked to analyze
\* price histories.
\* ------------------------------------------------------------------------
AnalyzeInit ==
    /\ BotsInitOthers
    /\ str_hash \in ProcessHashes
    /\ \E wallet \in AnalyzeWallets, coefficient \in {NoNumber, Number(100)} :
          bot_obj = [exists |-> TRUE,
                     bot |-> NewBot([BotDefaults EXCEPT
                                       !.bot_id = Some("b1"),
                                       !.usd_given = wallet[1],
                                       !.usd = wallet[1],
                                       !.bc = wallet[2],
                                       !.bot_type = Some("momentum"),
                                       !.behavior_coefficient = coefficient,
                                       !.user_id = Some("u1")],
                                    "b1", str_hash)]
    /\ bot_hashes = [id \in BotUuids |-> NoFullHash]
    /\ game_players = StartPlayers
    /\ bought = NoPurchase
    /\ saved_bot = [id \in BotUuids |-> NoBotObject]
    /\ first_coefficient = [id \in BotUuids |-> NoNumber]
    /\ analysis = NoAnalyze

AnalyzeNext ==
    \E coins \in AnalyzeHistories, ignore \in BOOLEAN : BotsAnalyze(coins, ignore)

SpecAnalyze == AnalyzeInit /\ [][AnalyzeNext]_vars

\* ------------------------------------------------------------------------
\* Claims about the scheduling of the shock (checked under SpecSchedule)
\* ------------------------------------------------------------------------
\* the duration the start-market request asked for, in seconds
ScheduledDuration == loop_cfg.end_time \div Second

\* C27: for every session duration of 10 or more, the tick Market.__init__
\* schedules the shock at lies between 0.3 * duration and 0.7 * duration,
\* both included.
C27_EventTickWithinRange ==
    ScheduledDuration >= 10 =>
        /\ 3 * ScheduledDuration <= 10 * market.event_tick
        /\ 10 * market.event_tick <= 7 * ScheduledDuration

\* ------------------------------------------------------------------------
\* Claims about Bot objects (checked under SpecBots)
\* ------------------------------------------------------------------------
\* the attributes save_to_redis writes and load_from_redis reads
SavedFields ==
    {"bot_id", "is_toggled", "usd_given", "usd", "bc", "bot_type", "bot_name",
     "behavior_coefficient", "parameters", "user_id", "custom_strategy_code"}
\* a bot was just loaded from a hash written by a save of a Bot object
LoadedAfterSave ==
    /\ last_op = "load_from_redis"
    /\ bot_obj.exists
    /\ saved_bot[bot_obj.bot.bot_id].exists

\* C24: the bot Bot.load_from_redis returns after Bot.save_to_redis equals
\* the saved bot in bot_id, is_toggled, usd_given, usd, bc, bot_type, bot_name,
\* behavior_coefficient, parameters, user_id and custom_strategy_code, whether
\* the bot has an owner or not and custom code or not.
C24_LoadReturnsSavedBot ==
    LoadedAfterSave =>
        \A f \in SavedFields :
            bot_obj.bot[f] = saved_bot[bot_obj.bot.bot_id].bot[f]

\* the players that carry user_id in their userId or their playerId field
PlayersOf(players, user_id) ==
    { i \in 1 .. Len(players) :
        players[i].userId = Some(user_id) \/ players[i].playerId = Some(user_id) }

\* C26: buyBot for a user who is in the players list, under the field userId
\* or the field playerId, returns a new bot id, stores a bot with user_id
\* the purchaser, usd = initial_usd, bc = 0 and toggled on, and appends the
\* bot to the purchaser's bots list.
C26_BuyBotStoresOwnedBot ==
    (last_op = "buyBot" /\ PlayersOf(game_players, bought.user_id) # {}) =>
        /\ ~bought.result.none
        /\ bot_hashes[bought.result.s].exists
        /\ bot_hashes[bought.result.s].user_id = bought.user_id
        /\ bot_hashes[bought.result.s].usd.v = bought.initial_usd
        /\ bot_hashes[bought.result.s].bc.v = 0
        /\ LowerText(bot_hashes[bought.result.s].is_toggled) = "true"
        /\ \A i \in PlayersOf(game_players, bought.user_id) :
              \E k \in 1 .. Len(game_players[i].bots) :
                 game_players[i].bots[k].botId = bought.result.s

\* C28: every Bot object with a given bot_id, whether constructed first or
\* again, traded with, analyzed with, or loaded after a save, has the
\* behavior_coefficient the first construction with that bot_id generated,
\* and it lies in [0.8, 1.2].
C28_CoefficientFixedByBotId ==
    (bot_obj.exists /\ ~first_coefficient[bot_obj.bot.bot_id].none) =>
        /\ bot_obj.bot.behavior_coefficient = first_coefficient[bot_obj.bot.bot_id].v
        /\ bot_obj.bot.behavior_coefficient \in 80 .. 120

\* ------------------------------------------------------------------------
\* Claims about the decisions of a momentum bot (checked under SpecAnalyze)
\* ------------------------------------------------------------------------
\* the price the analyzed bot decided at
DecisionPrice == analysis.coins[Len(analysis.coins)]

\* C29: the amount a bot decides after _scale_trade_amount never spends more
\* than 20% of the bot's usd on a buy, and never sells more coin than the
\* bot holds.
C29_ScaledAmountWithinWallet ==
    analysis.called =>
        /\ analysis.decision.action = "buy" =>
              analysis.decision.amount * DecisionPrice <= 20 * bot_obj.bot.usd
        /\ analysis.decision.action = "sell" =>
              analysis.decision.amount <= bot_obj.bot.bc * Centi

\* a momentum bot with default parameters and coefficient 1.0 analyzed a
\* strictly increasing history of 20 prices whose short moving average (5
\* prices) is more than 3% above the long one (20 prices)
MomentumScenario ==
    /\ analysis.called
    /\ bot_obj.bot.bot_type = "momentum"
    /\ bot_obj.bot.parameters = DefaultParameters("momentum")
    /\ bot_obj.bot.behavior_coefficient = 100
    /\ Len(analysis.coins) = 20
    /\ \A i \in 1 .. 19 : analysis.coins[i] < analysis.coins[i + 1]
    /\ SumSeq(LastN(analysis.coins, 5)) * 20 * 100 > SumSeq(analysis.coins) * 5 * 103

\* C30 as stated: in that scenario Bot.analyze returns 'buy' with an amount
\* above 0 on every invocation.
C30_MomentumAlwaysBuys ==
    MomentumScenario =>
        /\ analysis.decision.action = "buy"
        /\ analysis.decision.amount > 0

\* C30 amended: in that scenario Bot.analyze returns 'hold' with amount 0
\* in the calls whose random draw ignores the signal, and 'buy' in all
\* others, with an amount above 0 exactly when the bot has usd.
C30_MomentumBuysUnlessIgnored ==
    MomentumScenario =>
        IF analysis.ignore
        THEN analysis.decision = [action |-> "hold", amount |-> 0]
        ELSE /\ analysis.decision.action = "buy"
             /\ (analysis.decision.amount > 0) <=> (bot_obj.bot.usd > 0)

C30_Witness ==
    /\ MomentumScenario
    /\ ~analysis.ignore
    /\ analysis.decision.action = "buy"
    /\ analysis.decision.amount > 0

\* ------------------------------------------------------------------------
\* Claims about toggleBot (checked under SpecBotRun)
\* ------------------------------------------------------------------------
\* the step is a return of toggleBot
ToggleReturns ==
    \/ tog_pc = "save_players" /\ tog_pc' = "idle"
    \/ toggles' = toggles + 1 /\ tog_pc' = "idle"

\* C25: toggleBot on an existing bot returns True and leaves the stored
\* is_toggled flag the inverse of the one it found, so that two consecutive
\* toggles restore the flag; on a bot that does not exist it returns False
\* and changes nothing.
C25_ToggleInvertsStoredFlag ==
    [][ToggleReturns =>
          IF tog_pc = "save_players"
          THEN /\ last_result' = TRUE
               /\ redis_bot'.is_toggled = PyStr(~tog_bot.is_toggled)
          ELSE /\ last_result' = FALSE
               /\ ~redis_bot.exists
               /\ redis_bot' = redis_bot
               /\ redis_game' = redis_game
      ]_vars

\* ------------------------------------------------------------------------
\* Prices: sessions over reserves whose ratio lies on both sides of the
\* minimum price, ticking.
\* ------------------------------------------------------------------------
PriceInit ==
    /\ \E d \in Durations, r \in PriceReserves, p \in InitialPrices :
         \E et \in EventTicks(d) :
            market = NewMarket(p, et, r[1], r[2])
    /\ redis_market = market
    /\ shocks = 0
    /\ fired_at = 0
    /\ updates = 0
    /\ TradeIdle
    /\ last_op = "start_market_updates"
    /\ last_args = NoArgs
    /\ last_result = TRUE

PriceNext == MarketTick

SpecPrice == PriceInit /\ [][PriceNext]_vars

\* the prices updateMarket appended: all of price_history but the seed
AppendedPrices ==
    { market.price_history[k] : k \in 2 .. Len(market.price_history) }

\* C31: every price updateMarket appends to price_history, and current_price
\* after every tick, is at least 0.10, whatever the reserves, the simulated
\* trades and the shock.
C31_PriceAtLeastMinimum ==
    /\ \A p \in AppendedPrices : p >= MIN_PRICE
    /\ last_op = "updateMarket" => market.current_price >= MIN_PRICE

\* C31 witness: a tick on reserves whose ratio is below the minimum price,
\* after the shock, so that the appended price is the minimum itself.
C31_Witness ==
    /\ last_op = "updateMarket"
    /\ shocks >= 1
    /\ market.dollar_supply \div market.bc_supply < MIN_PRICE
    /\ market.current_price = MIN_PRICE
    /\ market.price_history[Len(market.price_history)] = MIN_PRICE

\* ------------------------------------------------------------------------
\* The bot's run thread against the users' trade requests, with the legacy
\* interactions list every recorded trade extends.  A request is one step:
\* the endpoints do not yield between their load and their last write, the
\* bot's thread runs beside them.
\* ------------------------------------------------------------------------
notLegacyExtra ==
    <<reqVars, taskVars, customVars, recVars, reloadVars, botsVars, restVars>>

\* TransactionHistory._update_interactions: the entry in the legacy format
\* (value is the amount in hundredths) appended to the stored list
new_interaction(transaction) ==
    [name |-> transaction.actor, type |-> transaction.type,
     value |-> transaction.amount * 100]
update_interactions(stored, transaction) ==
    Append(stored, new_interaction(transaction))

\* Bot.run: game_data = self._get_game_data_from_redis(game_id), which parses
\* the players and the interactions of the hash into the dict
RunLoadGameData ==
    /\ UNCHANGED notLegacyExtra
    /\ UNCHANGED loopVars
    /\ run_pc = "load_game"
    /\ run_game' = redis_game
    /\ run_interactions' = interactions
    /\ run_pc' = "trade"
    /\ UNCHANGED <<marketVars, tradeVars, run_iter, run_decision, toggleVars,
                   pre_buy, interactions, lastVars>>

\* Bot.run: self.buy or self.sell on the loaded dict; add_transaction pushes
\* the transaction and _update_interactions extends the stored list
RunTradeRecorded ==
    /\ UNCHANGED notLegacyExtra
    /\ UNCHANGED loopVars
    /\ run_pc = "trade"
    /\ LET d == run_decision
           r == IF d.action = "buy"
                THEN BotBuy(bot, run_game, redis_tx, d.amount, d.price, Owner)
                ELSE BotSell(bot, run_game, redis_tx, d.amount, d.price, Owner)
       IN  /\ bot' = r.self
           /\ run_game' = r.game_data
           /\ redis_tx' = r.tx
           /\ interactions' = IF r.ok THEN update_interactions(interactions, Head(r.tx))
                              ELSE interactions
           /\ last_result' = r.ok
           /\ run_pc' = IF r.ok THEN "save_bot" ELSE "periodic_save"
           /\ pre_buy' = IF r.ok /\ d.action = "buy"
                         THEN Snapshot(bot, run_game) ELSE pre_buy
           /\ last_op' = IF d.action = "buy" THEN "Bot.buy" ELSE "Bot.sell"
           /\ last_args' = [actor |-> BotId, amount |-> d.amount, price |-> d.price]
    /\ ops' = ops + 1
    /\ UNCHANGED <<marketVars, redis_game, redis_bot, run_iter, run_decision,
                   run_interactions, toggleVars>>

\* Bot.run: self._save_game_data_to_redis(game_id, game_data) writes every
\* key of the dict back: the totals, the players and the interactions
RunSaveGameData ==
    /\ UNCHANGED notLegacyExtra
    /\ UNCHANGED loopVars
    /\ run_pc = "save_game"
    /\ redis_game' = run_game
    /\ interactions' = run_interactions
    /\ run_pc' = "periodic_save"
    /\ UNCHANGED <<marketVars, redis_tx, bot, redis_bot, ops, run_iter,
                   run_decision, run_game, run_interactions, toggleVars,
                   pre_buy, lastVars>>

\* POST /api/game/buy-coins and sell-coins, with the recording of the trade
UserTradeRecorded(action, user_id, amount) ==
    /\ UNCHANGED notLegacyExtra
    /\ UNCHANGED loopVars
    /\ ops < MaxOps
    /\ LET r == IF action = "buy"
                THEN buy_coins(redis_market, redis_game.players, redis_tx,
                               user_id, amount)
                ELSE sell_coins(redis_market, redis_game.players, redis_tx,
                                user_id, amount)
       IN  /\ redis_market' = r.market
           /\ market' = r.market
           /\ redis_game' = [redis_game EXCEPT !.players = r.players]
           /\ redis_tx' = r.tx
           /\ interactions' = IF r.ok THEN update_interactions(interactions, Head(r.tx))
                              ELSE interactions
           /\ last_result' = r.ok
    /\ ops' = ops + 1
    /\ last_op' = IF action = "buy" THEN "buy_coins" ELSE "sell_coins"
    /\ last_args' = [actor |-> user_id, amount |-> amount,
                     price |-> redis_market.current_price]
    /\ UNCHANGED <<shocks, fired_at, updates, bot, redis_bot, runVars, toggleVars,
                   pre_buy, run_interactions>>

RunTradesNext ==
    \/ RunCheckExists
    \/ RunReadToggle
    \/ RunAnalyze
    \/ RunLoadGameData
    \/ RunTradeRecorded
    \/ RunSaveBot
    \/ RunSaveGameData
    \/ RunPeriodicSave
    \/ \E action \in {"buy", "sell"}, user_id \in Users, amount \in TradeAmounts :
          UserTradeRecorded(action, user_id, amount)

SpecRunTrades == TradeInit /\ [][RunTradesNext]_vars

\* ------------------------------------------------------------------------
\* Claims about Bot.run beside the users' trades (checked under SpecRunTrades)
\* ------------------------------------------------------------------------
\* list is a prefix of longer
IsPrefix(list, longer) ==
    /\ Len(list) <= Len(longer)
    /\ SubSeq(longer, 1, Len(list)) = list

\* C32: the stored interactions list is only ever extended: no step, the
\* write-back of the game data after a bot trade included, removes an entry
\* that was recorded, so after the write-back the list still holds the
\* earlier entries and the entry of the bot's trade.
C32_InteractionsOnlyExtended ==
    [][IsPrefix(interactions, interactions')]_vars

\* the step is Bot.run's write-back of the game data after its trade
IsWriteBack == run_pc = "save_game" /\ run_pc' = "periodic_save"

\* C35: the write-back of the game data after a bot trade does not overwrite
\* the players entry with balances read before a user's action: the wallet
\* of a player who is not the bot's owner, which only that player's own
\* requests change, is the same after the write-back as before it.
C35_WriteBackKeepsUserWallets ==
    [][IsWriteBack =>
          \A u \in Users \ {Owner} :
             redis_game'.players[u] = redis_game.players[u]]_vars

\* ------------------------------------------------------------------------
\* POST /api/bot/buy against a store that can go down and come back between
\* any two of the request's accesses to it.  The endpoint does not yield, so
\* requests follow one another.
\* ------------------------------------------------------------------------
\* the users a buy-bot request names: the players, and one who is not in the
\* game
BuyBotUsers == Users \cup {"u3"}
\* request.cost (gt=0): $1.00 and $3.00
BuyBotCosts == {1 * Dollar, 3 * Dollar}

\* the index of the first player whose
\* player.get('userId') or player.get('playerId') is user_id, 0 for none
PlayerIndex(players, user_id) ==
    LET found == { i \in 1 .. Len(players) :
                     OrElse(players[i].userId, OrElse(players[i].playerId, ""))
                        = user_id }
    IN  IF found = {} THEN 0 ELSE CHOOSE i \in found : \A j \in found : i <= j

\* bot_starting_capital = request.cost * 0.7
StartingCapital(cost) == (cost * 7) \div 10

\* the Bot the endpoint constructs
PurchasedBot(user_id, cost, bot_id, hash) ==
    NewBot([BotDefaults EXCEPT !.bot_id = Some(bot_id),
                               !.is_toggled = TRUE,
                               !.usd_given = StartingCapital(cost),
                               !.usd = StartingCapital(cost),
                               !.bc = 0,
                               !.bot_type = Some("momentum"),
                               !.user_id = Some(user_id),
                               !.bot_name = Some("momentum")],
           bot_id, hash)

\* the store goes down or comes back
StoreChanges ==
    /\ store_up' = ~store_up
    /\ UNCHANGED <<marketVars, tradeVars, runVars, toggleVars, now, loop_pc,
                   loop_cfg, update_count, cancel, orphan, task_active, is_ended,
                   reqVars, taskVars, pre_buy, customVars, recVars, reloadVars,
                   botsVars, moreVars, lastVars>>

\* everything a buy-bot request leaves alone
notBuyBotVars ==
    <<marketVars, redis_tx, bot, redis_bot, ops, runVars, toggleVars, loopVars,
      reqVars, taskVars, pre_buy, customVars, recVars, reloadVars, legacyVars,
      str_hash, bot_obj, bought, saved_bot, first_coefficient, analysis,
      ioVars, removeVars, shutVars, last_args, last_result>>

\* the request ends with an HTTPException before it wrote anything
BuyBotRaises(user_id, cost, outcome) ==
    /\ buy_req' = [buy_req EXCEPT !.userId = user_id, !.cost = cost,
                                  !.bot_id = "", !.outcome = outcome,
                                  !.count = @ + 1,
                                  !.players = redis_game.players,
                                  !.game_players = game_players,
                                  !.hashes = bot_hashes]
    /\ buy_pc' = "idle"

\* r.hgetall of the game, the search for the user, the funds check, and the
\* deduction and the new bots entry on the loaded list
BuyBotLoad(user_id, cost, uuid) ==
    /\ buy_pc = "idle"
    /\ buy_req.count < MaxBuyBots
    /\ ~bot_hashes[uuid].exists
    /\ \A i \in 1 .. Len(game_players) :
          \A k \in 1 .. Len(game_players[i].bots) :
             game_players[i].bots[k].botId # uuid
    /\ IF ~store_up THEN BuyBotRaises(user_id, cost, "error")
       ELSE IF PlayerIndex(game_players, user_id) = 0
       THEN BuyBotRaises(user_id, cost, "not_found")
       ELSE IF Insufficient(redis_game.players[user_id].usd, cost)
       THEN BuyBotRaises(user_id, cost, "insufficient")
       ELSE /\ buy_req' =
                 [ userId |-> user_id, cost |-> cost, bot_id |-> uuid,
                   outcome |-> "none", count |-> buy_req.count + 1,
                   players |-> redis_game.players,
                   game_players |-> game_players,
                   hashes |-> bot_hashes ]
            /\ buy_pc' = "save_players"
    /\ last_op' = "buy_bot"
    /\ UNCHANGED <<notBuyBotVars, redis_game, game_players, bot_hashes>>

\* r.hset(game, "players", ...): the wallet less the cost and the bots list
\* with the new entry; a store error ends the request with a 500
BuyBotSavePlayers ==
    /\ buy_pc = "save_players"
    /\ IF store_up
       THEN LET user_index == PlayerIndex(buy_req.game_players, buy_req.userId)
            IN  /\ redis_game' =
                      [redis_game EXCEPT !.players =
                         [buy_req.players EXCEPT ![buy_req.userId].usd =
                             NonNegative(@ - buy_req.cost)]]
                /\ game_players' =
                      [buy_req.game_players EXCEPT ![user_index].bots =
                         Append(@, [botId |-> buy_req.bot_id, botName |-> "momentum"])]
                /\ buy_pc' = "verify"
                /\ UNCHANGED buy_req
       ELSE /\ buy_req' = [buy_req EXCEPT !.outcome = "error"]
            /\ buy_pc' = "idle"
            /\ UNCHANGED <<redis_game, game_players>>
    /\ UNCHANGED <<notBuyBotVars, bot_hashes, last_op>>

\* saved_data = r.hget(game, "players"): a store error ends the request
BuyBotVerify ==
    /\ buy_pc = "verify"
    /\ IF store_up
       THEN buy_pc' = "save_bot" /\ UNCHANGED buy_req
       ELSE buy_pc' = "idle" /\ buy_req' = [buy_req EXCEPT !.outcome = "error"]
    /\ UNCHANGED <<notBuyBotVars, redis_game, game_players, bot_hashes, last_op>>

\* bot = Bot(...); bot.save_to_redis(game_id), which prints a store error
\* and returns
BuyBotSaveBot ==
    /\ buy_pc = "save_bot"
    /\ bot_hashes' =
          IF store_up
          THEN [bot_hashes EXCEPT ![buy_req.bot_id] =
                  FullBotHash(PurchasedBot(buy_req.userId, buy_req.cost,
                                           buy_req.bot_id, str_hash))]
          ELSE bot_hashes
    /\ buy_pc' = "load_bot"
    /\ UNCHANGED <<notBuyBotVars, redis_game, game_players, buy_req, last_op>>

\* bot = Bot.load_from_redis(...), None on a store error; return success
BuyBotReturn ==
    /\ buy_pc = "load_bot"
    /\ buy_req' = [buy_req EXCEPT !.outcome = "success"]
    /\ buy_pc' = "idle"
    /\ UNCHANGED <<notBuyBotVars, redis_game, game_players, bot_hashes, last_op>>

BuyBotNext ==
    \/ \E user_id \in BuyBotUsers, cost \in BuyBotCosts, uuid \in BotUuids :
          BuyBotLoad(user_id, cost, uuid)
    \/ BuyBotSavePlayers
    \/ BuyBotVerify
    \/ BuyBotSaveBot
    \/ BuyBotReturn
    \/ StoreChanges

SpecBuyBot == BotsInit /\ [][BuyBotNext]_vars

\* ------------------------------------------------------------------------
\* Claims about the buy-bot endpoint (checked under SpecBuyBot)
\* ------------------------------------------------------------------------
\* a buy-bot request has ended
BuyBotEnded == buy_pc = "idle" /\ buy_req.outcome # "none"
\* the request changed neither the players nor the bots
BuyBotChangedNothing ==
    /\ redis_game.players = buy_req.players
    /\ game_players = buy_req.game_players
    /\ bot_hashes = buy_req.hashes
\* the cost is deducted and the bot is stored, owned and listed
BuyBotDone ==
    LET u == buy_req.userId
        user_index == PlayerIndex(game_players, u)
        stored == bot_hashes[buy_req.bot_id]
    IN  /\ u \in Users
        /\ buy_req.bot_id \in BotUuids
        /\ redis_game.players[u].usd = buy_req.players[u].usd - buy_req.cost
        /\ stored.exists
        /\ stored.usd = StrFloat((buy_req.cost * 7) \div 10)
        /\ stored.bc = StrFloat(0)
        /\ stored.is_toggled = StrBool(TRUE)
        /\ stored.user_id = u
        /\ \E k \in 1 .. Len(game_players[user_index].bots) :
              game_players[user_index].bots[k].botId = buy_req.bot_id

\* C33: a buy-bot request is all or nothing: a user with less usd than the
\* cost is rejected with players and bots unchanged; otherwise the usd
\* decreases by exactly the cost and the store holds a bot with usd 0.7 * cost,
\* bc 0, toggled on, owned by the user and listed in the user's bots; no
\* request ends with the cost deducted and no bot stored.
C33_BuyBotAllOrNothing ==
    BuyBotEnded =>
        /\ BuyBotChangedNothing \/ BuyBotDone
        /\ buy_req.outcome = "insufficient" => BuyBotChangedNothing

\* ------------------------------------------------------------------------
\* A buy-coins or sell-coins request with its retry loop, against a store
\* that can go down and come back between any two of its accesses.  Nothing
\* else runs: no tick, no bot, no other request.
\* ------------------------------------------------------------------------
notTradeReqVars ==
    <<market, shocks, fired_at, updates, bot, redis_bot, runVars, toggleVars,
      loopVars, taskVars, pre_buy, customVars, recVars, reloadVars, botsVars,
      run_interactions, restVars>>

\* the request arrives: retry_count = 0
TradeReqStart(action, user_id, amount) ==
    /\ req_pc = "idle"
    /\ ops < MaxOps
    /\ ops' = ops + 1
    /\ req' = [ action |-> action, userId |-> user_id, amount |-> amount,
                actual_amount |-> 0, retry_count |-> 0, outcome |-> "none",
                market_before |-> redis_market,
                players_before |-> redis_game.players,
                market |-> redis_market, players |-> redis_game.players ]
    /\ req_pc' = "load_market"
    /\ last_op' = IF action = "buy" THEN "buy_coins" ELSE "sell_coins"
    /\ last_args' = [actor |-> user_id, amount |-> amount,
                     price |-> redis_market.current_price]
    /\ UNCHANGED <<notTradeReqVars, redis_market, redis_game, redis_tx,
                   interactions, last_result>>

\* the except clause of the retry loop: count the error, give up with a 500
\* after max_retries, else try again from the load of the market
TradeReqRetry ==
    /\ req.retry_count < MaxStoreErrors
    /\ IF req.retry_count + 1 >= MAX_RETRIES
       THEN /\ req' = [req EXCEPT !.retry_count = @ + 1, !.outcome = "error"]
            /\ req_pc' = "idle"
       ELSE /\ req' = [req EXCEPT !.retry_count = @ + 1]
            /\ req_pc' = "load_market"

\* market = Market.load_from_redis(game_id); None ends the request with 404
TradeReqLoadMarket ==
    /\ req_pc = "load_market"
    /\ LET loaded == load_from_redis(redis_market, store_up)
       IN  IF loaded.found
           THEN /\ req' = [req EXCEPT !.market = loaded.market]
                /\ req_pc' = "load_game"
           ELSE /\ req' = [req EXCEPT !.outcome = "not_found"]
                /\ req_pc' = "idle"
    /\ UNCHANGED <<notTradeReqVars, redis_market, redis_game, redis_tx,
                   interactions, ops, lastVars>>

\* r.hgetall(game), the funds check and the trade on the loaded objects
TradeReqLoadGame ==
    /\ req_pc = "load_game"
    /\ IF store_up
       THEN LET r == IF req.action = "buy"
                     THEN buy_coins(req.market, redis_game.players, redis_tx,
                                    req.userId, req.amount)
                     ELSE sell_coins(req.market, redis_game.players, redis_tx,
                                     req.userId, req.amount)
            IN  IF r.ok
                THEN /\ req' = [req EXCEPT !.market = r.market, !.players = r.players,
                                            !.actual_amount = r.amount]
                     /\ req_pc' = "save_market"
                ELSE /\ req' = [req EXCEPT !.outcome = "refused"]
                     /\ req_pc' = "idle"
       ELSE TradeReqRetry
    /\ UNCHANGED <<notTradeReqVars, redis_market, redis_game, redis_tx,
                   interactions, ops, lastVars>>

\* market.save_to_redis(), which logs a store error and returns
TradeReqSaveMarket ==
    /\ req_pc = "save_market"
    /\ redis_market' = save_to_redis(req.market, redis_market, store_up)
    /\ req_pc' = "save_players"
    /\ UNCHANGED <<notTradeReqVars, redis_game, redis_tx, interactions, ops, req,
                   lastVars>>

\* r.hset(game, "players", ...): a store error goes to the except clause
TradeReqSavePlayers ==
    /\ req_pc = "save_players"
    /\ IF store_up
       THEN /\ redis_game' = [redis_game EXCEPT !.players = req.players]
            /\ req_pc' = "record"
            /\ UNCHANGED req
       ELSE /\ TradeReqRetry
            /\ UNCHANGED redis_game
    /\ UNCHANGED <<notTradeReqVars, redis_market, redis_tx, interactions, ops,
                   lastVars>>

\* TransactionHistory.add_transaction, which prints a store error and
\* returns False; the request returns success
TradeReqRecord ==
    /\ req_pc = "record"
    /\ LET transaction ==
             Transaction(req.action, req.userId,
                         req.actual_amount, req.market.current_price, FALSE)
           rc == RecordTransaction(redis_tx, transaction, store_up)
       IN  /\ redis_tx' = rc.tx
           /\ interactions' = IF store_up
                              THEN update_interactions(interactions, transaction)
                              ELSE interactions
    /\ req' = [req EXCEPT !.outcome = "success"]
    /\ req_pc' = "idle"
    /\ UNCHANGED <<notTradeReqVars, redis_market, redis_game, ops, lastVars>>

RetryNext ==
    \/ \E action \in {"buy", "sell"}, user_id \in Users, amount \in TradeAmounts :
          TradeReqStart(action, user_id, amount)
    \/ TradeReqLoadMarket
    \/ TradeReqLoadGame
    \/ TradeReqSaveMarket
    \/ TradeReqSavePlayers
    \/ TradeReqRecord
    \/ StoreChanges

SpecRetry == TradeInit /\ [][RetryNext]_vars

\* ------------------------------------------------------------------------
\* Claims about the retry loop of the trade endpoints (checked under
\* SpecRetry)
\* ------------------------------------------------------------------------
\* a trade request has ended
TradeReqEnded == req_pc = "idle" /\ req.action # ""
\* the request applied once to what the store held when it arrived
AppliedOnce ==
    IF req.action = "buy"
    THEN buy_coins(req.market_before, req.players_before, <<>>, req.userId,
                   req.amount)
    ELSE sell_coins(req.market_before, req.players_before, <<>>, req.userId,
                    req.amount)

\* C34: whatever the store failures during a buy-coins or sell-coins
\* request, when it ends either the stored reserves and the stored wallet
\* both hold the trade exactly once, or neither has changed.
C34_TradeAppliedOnceOrNever ==
    TradeReqEnded =>
        \/ /\ AppliedOnce.ok
           /\ redis_market = AppliedOnce.market
           /\ redis_game.players = AppliedOnce.players
        \/ /\ redis_market = req.market_before
           /\ redis_game.players = req.players_before

\* ------------------------------------------------------------------------
\* Claims about the saves of Bot.run and toggleBot (checked under
\* SpecBotRun)
\* ------------------------------------------------------------------------
\* the step is a save_to_redis of Bot.run: after a trade, or the periodic one
IsRunSave ==
    \/ run_pc = "save_bot" /\ run_pc' = "save_game"
    \/ run_pc = "periodic_save" /\ run_pc' = "top"
\* the step is the save_to_redis of toggleBot
IsToggleSave == tog_pc = "save" /\ tog_pc' = "load_players"

\* C36: only toggleBot changes the stored is_toggled flag and only the bot's
\* trades change its stored usd and bc: a save of Bot.run leaves the stored
\* flag as it is, and the save of toggleBot leaves the stored balances as they
\* are, however the two interleave.
C36_SavesKeepFlagAndBalances ==
    [][ /\ IsRunSave => redis_bot'.is_toggled = redis_bot.is_toggled
        /\ IsToggleSave => /\ redis_bot'.usd = redis_bot.usd
                           /\ redis_bot'.bc = redis_bot.bc ]_vars

\* ------------------------------------------------------------------------
\* The tick's save of the market against a load from another thread: the
\* tick loop runs updateMarket, whose save_to_redis writes the two hashes one
\* after the other, in a worker thread; a request's Market.load_from_redis
\* reads the two hashes one after the other.
\* ------------------------------------------------------------------------
notSaveLoadVars ==
    <<market, redis_market, tradeVars, runVars, toggleVars, loopVars, reqVars,
      taskVars, pre_buy, customVars, recVars, botsVars, legacyVars, shopVars,
      removeVars, shutVars, last_args, last_result>>

\* run_market_updates, one iteration up to the save: Market.load_from_redis
\* and updateMarket on the loaded object
SaveLoadTick ==
    /\ save_pc = "idle"
    /\ updates < MaxReloads
    /\ LET loaded == LoadMarket(GameId, market_hashes)
       IN  /\ loaded.found
           /\ \E draw \in TradeDraws, shock \in ShockDraws :
                saved_market' = updateFull(loaded.market, draw,
                                           shock.is_positive, shock.factor)
           /\ shocks' = IF EventFires(Core(loaded.market)) THEN shocks + 1 ELSE shocks
           /\ fired_at' = IF EventFires(Core(loaded.market))
                          THEN loaded.market.current_tick + 1 ELSE fired_at
    /\ updates' = updates + 1
    /\ save_pc' = "info"
    /\ last_op' = "updateMarket"
    /\ UNCHANGED <<notSaveLoadVars, market_hashes, reference, load_pc, load_req>>

\* Market.save_to_redis: r.hset(market_key, ...)
SaveInfo ==
    /\ save_pc = "info"
    /\ market_hashes' = [market_hashes EXCEPT !.info = MarketHashes(saved_market).info]
    /\ save_pc' = "data"
    /\ UNCHANGED <<notSaveLoadVars, saved_market, reference, shocks, fired_at,
                   updates, load_pc, load_req, last_op>>

\* Market.save_to_redis: r.hset(market_data_key, ...)
SaveData ==
    /\ save_pc = "data"
    /\ market_hashes' = [market_hashes EXCEPT !.data = MarketHashes(saved_market).data]
    /\ save_pc' = "idle"
    /\ UNCHANGED <<notSaveLoadVars, saved_market, reference, shocks, fired_at,
                   updates, load_pc, load_req, last_op>>

\* Market.load_from_redis: market_data = r.hgetall(market_key)
LoadInfo ==
    /\ load_pc = "idle"
    /\ load_req' = [load_req EXCEPT !.info = market_hashes.info, !.returned = FALSE]
    /\ load_pc' = "data"
    /\ UNCHANGED <<notSaveLoadVars, reloadVars, shocks, fired_at, updates, save_pc,
                   last_op>>

\* Market.load_from_redis: data = r.hgetall(market_data_key), and the object
\* built from what the two reads returned
LoadData ==
    /\ load_pc = "data"
    /\ load_req' = [load_req EXCEPT
                      !.returned = TRUE,
                      !.result = LoadMarket(GameId,
                                    [market_hashes EXCEPT !.info = load_req.info])]
    /\ load_pc' = "idle"
    /\ last_op' = "load_from_redis"
    /\ UNCHANGED <<notSaveLoadVars, reloadVars, shocks, fired_at, updates, save_pc>>

SaveLoadNext ==
    \/ SaveLoadTick
    \/ SaveInfo
    \/ SaveData
    \/ LoadInfo
    \/ LoadData

SpecSaveLoad == ReloadInit /\ [][SaveLoadNext]_vars

\* ------------------------------------------------------------------------
\* Claims about loads beside saves (checked under SpecSaveLoad)
\* ------------------------------------------------------------------------
\* C37: every market Market.load_from_redis returns is consistent, also
\* when a save runs beside the load: its current_tick is the tick stored with
\* its price history, and price_history has current_tick + 1 entries.
C37_LoadedMarketConsistent ==
    (load_req.returned /\ load_req.result.found) =>
        /\ load_req.result.market.current_tick
              = load_req.result.market.md_current_tick
        /\ Len(load_req.result.market.price_history)
              = load_req.result.market.current_tick + 1

\* ------------------------------------------------------------------------
\* The bot's run thread (Bot.run) against Bot.remove_from_redis, whose two
\* store calls interleave with the loop's accesses at any point.
\* ------------------------------------------------------------------------
notRemoveVars ==
    <<reqVars, taskVars, pre_buy, customVars, recVars, reloadVars, botsVars,
      legacyVars, shopVars, ioVars, shutVars>>

\* Bot.remove_from_redis: r.delete(bot_key)
RemoveDelete ==
    /\ rm_pc = "none"
    /\ redis_bot' = NoBotRecord
    /\ rm_pc' = "deleted"
    /\ last_op' = "remove_from_redis"
    /\ UNCHANGED <<notRemoveVars, loopVars, marketVars, redis_game, redis_tx, bot,
                   ops, runVars, toggleVars, bots_set, last_args, last_result>>

\* Bot.remove_from_redis: r.srem(bots_set_key, self.bot_id)
RemoveSrem ==
    /\ rm_pc = "deleted"
    /\ bots_set' = FALSE
    /\ rm_pc' = "removed"
    /\ last_op' = "remove_from_redis"
    /\ UNCHANGED <<notRemoveVars, loopVars, marketVars, tradeVars, runVars,
                   toggleVars, last_args, last_result>>

RemoveNext ==
    \/ RunCheckExists
    \/ RunReadToggle
    \/ RunAnalyze
    \/ RunLoadGame
    \/ RunTrade
    \/ RunSaveBot
    \/ RunSaveGame
    \/ RunPeriodicSave
    \/ RemoveDelete
    \/ RemoveSrem

SpecRemove == TradeInit /\ [][RemoveNext]_vars

\* ------------------------------------------------------------------------
\* Claims about the run loop of a removed bot (checked under SpecRemove)
\* ------------------------------------------------------------------------
\* C38: once Bot.remove_from_redis has deleted the
\* bot's record, no save of the run loop creates the record again, and once
\* it has removed the id from the game's bot set, no save adds it again.
C38_RunNeverRecreatesRemovedBot ==
    [][ IsRunSave =>
          /\ (rm_pc # "none" /\ ~redis_bot.exists) => ~redis_bot'.exists
          /\ (rm_pc = "removed" /\ ~bots_set) => ~bots_set' ]_vars

\* ------------------------------------------------------------------------
\* Shutdown of the server with game tasks active.  active_game_tasks is a
\* dict: its entries keep their insertion order, a deletion empties a slot,
\* and an iterator over it remembers the dict's size and raises RuntimeError
\* on the next item when the size has changed.  Tasks run on the event loop,
\* so a task takes a step only while shutdown_event is not running or is
\* suspended in its await.
\* ------------------------------------------------------------------------
notShutVars ==
    <<marketVars, tradeVars, runVars, toggleVars, loopVars, reqVars, taskVars,
      pre_buy, customVars, recVars, reloadVars, botsVars, legacyVars, shopVars,
      ioVars, removeVars, last_args, last_result>>

\* len(active_game_tasks)
DictSize(entries) == Cardinality({i \in DOMAIN entries : entries[i].live})

\* del active_game_tasks[game_id]
DictDelete(entries, game_id) ==
    [i \in DOMAIN entries |->
        IF entries[i].key = game_id THEN [entries[i] EXCEPT !.live = FALSE]
        ELSE entries[i]]

\* start_market_updates: the task is created and stored under its game id
ShutdownStartGame(game_id) ==
    /\ shut.pc = "idle"
    /\ game_task[game_id] = "none"
    /\ active_entries' = Append(active_entries, [key |-> game_id, live |-> TRUE])
    /\ game_task' = [game_task EXCEPT ![game_id] = "running"]
    /\ last_op' = "start_market_updates"
    /\ UNCHANGED <<notShutVars, shut>>

\* run_market_updates: the game's time is over; the finally clause removes
\* the task's own entry
ShutdownTaskCompletes(game_id) ==
    /\ shut.pc \in {"idle", "await"}
    /\ game_task[game_id] = "running"
    /\ active_entries' = DictDelete(active_entries, game_id)
    /\ game_task' = [game_task EXCEPT ![game_id] = "finished"]
    /\ last_op' = "run_market_updates"
    /\ UNCHANGED <<notShutVars, shut>>

\* run_market_updates: the CancelledError arrives at its await, is raised
\* again, and the finally clause removes the task's own entry
ShutdownTaskCancelled(game_id) ==
    /\ shut.pc = "await"
    /\ game_task[game_id] = "cancelling"
    /\ active_entries' = DictDelete(active_entries, game_id)
    /\ game_task' = [game_task EXCEPT ![game_id] = "cancelled"]
    /\ last_op' = "run_market_updates"
    /\ UNCHANGED <<notShutVars, shut>>

\* shutdown_event: the for statement makes its iterator over
\* active_game_tasks.items()
ShutdownBegin ==
    /\ shut.pc = "idle"
    /\ shut' = [shut EXCEPT
                  !.pc = "next",
                  !.used = DictSize(active_entries),
                  !.pos = 0,
                  !.begun = {active_entries[i].key :
                               i \in {j \in DOMAIN active_entries :
                                        active_entries[j].live}}]
    /\ last_op' = "shutdown_event"
    /\ UNCHANGED <<notShutVars, active_entries, game_task>>

\* shutdown_event: the for statement takes the next item, and the body
\* cancels its task; a dict whose size has changed raises RuntimeError, which
\* nothing in shutdown_event catches
ShutdownNextItem ==
    /\ shut.pc = "next"
    /\ LET rest == {i \in DOMAIN active_entries :
                      i > shut.pos /\ active_entries[i].live}
           i == CHOOSE j \in rest : \A k \in rest : j <= k
       IN  IF shut.used # DictSize(active_entries)
           THEN /\ shut' = [shut EXCEPT !.pc = "raised"]
                /\ UNCHANGED game_task
           ELSE IF rest = {}
           THEN /\ shut' = [shut EXCEPT !.pc = "done"]
                /\ UNCHANGED game_task
           ELSE /\ shut' = [shut EXCEPT !.pc = "await", !.pos = i,
                                        !.current = active_entries[i].key]
                /\ game_task' = [game_task EXCEPT
                                   ![active_entries[i].key] = "cancelling"]
    /\ last_op' = "shutdown_event"
    /\ UNCHANGED <<notShutVars, active_entries>>

\* shutdown_event: await task returns with the CancelledError, which is passed
ShutdownAwaitReturns ==
    /\ shut.pc = "await"
    /\ game_task[shut.current] = "cancelled"
    /\ shut' = [shut EXCEPT !.pc = "next", !.awaited = @ \cup {shut.current}]
    /\ last_op' = "shutdown_event"
    /\ UNCHANGED <<notShutVars, active_entries, game_task>>

ShutdownNext ==
    \/ \E game_id \in ShutdownGames : ShutdownStartGame(game_id)
    \/ \E game_id \in ShutdownGames : ShutdownTaskCompletes(game_id)
    \/ \E game_id \in ShutdownGames : ShutdownTaskCancelled(game_id)
    \/ ShutdownBegin
    \/ ShutdownNextItem
    \/ ShutdownAwaitReturns

SpecShutdown == TradeInit /\ [][ShutdownNext]_vars

\* ------------------------------------------------------------------------
\* Claims about shutdown (checked under SpecShutdown)
\* ------------------------------------------------------------------------
\* C39: shutdown_event never raises, and when it has completed, every game
\* task that was active when it began has been cancelled and awaited.
C39_ShutdownCancelsEveryTask ==
    /\ shut.pc # "raised"
    /\ shut.pc = "done" => \A game_id \in shut.begun : game_id \in shut.awaited

====
